---- MODULE Spec2Model ----
(***************************************************************************)
(* Directory-object abstraction layer of terraform-provider-adldap:        *)
(* LdapClient (lookups, existence checks), LdapEntry (attribute cache,     *)
(* UpdateAttributes, Move/Rename/ChangeDN) and LdapAccount                  *)
(* (userAccountControl flags), over an LDAP server modelled as a map from  *)
(* distinguished names to objects.                                         *)
(*                                                                         *)
(* Strings are sequences of one-character strings, so that sort.Strings,   *)
(* fmt.Sprintf("%d") and strconv.ParseInt are computed, not assumed.       *)
(* A distinguished name is the sequence of its relative DNs, each the      *)
(* sequence of its attribute/value pairs.                                  *)
(***************************************************************************)
EXTENDS Integers, Sequences, FiniteSets, TLC

VARIABLES dir, entry, last, prev, pre

vars == <<dir, entry, last, prev, pre>>

(***************************************************************************)
(* Bounds of the model.                                                    *)
(***************************************************************************)
\* longest value list a caller passes to UpdateAttributes
MaxVals == 2

\* the longest list of requested attributes a handle accumulates over failed
\* refreshes
MaxRequested == 3

(***************************************************************************)
(* A local variable of the Go code: x is computed once and F reads it as   *)
(* often as it likes.                                                      *)
(***************************************************************************)
With(x, F(_)) == CHOOSE y \in {F(v) : v \in {x}} : TRUE

(***************************************************************************)
(* Strings.                                                                *)
(***************************************************************************)
\* the characters that occur in the model, in byte order
Alphabet == <<"\"", "$", "-", "0", "1", "2", "3", "4", "5", "6", "7", "8", "9",
              "\\", "a", "b", "c", "e", "i", "l", "o", "p", "r", "w", "U+00E9">>

Rank(c) == CHOOSE i \in 1..Len(Alphabet) : Alphabet[i] = c

\* Go's < on strings: bytewise lexicographic
RECURSIVE StrLess(_, _)
StrLess(a, b) ==
    IF b = <<>> THEN FALSE
    ELSE IF a = <<>> THEN TRUE
    ELSE IF Head(a) = Head(b) THEN StrLess(Tail(a), Tail(b))
    ELSE Rank(Head(a)) < Rank(Head(b))

RECURSIVE InsertSorted(_, _)
InsertSorted(x, s) ==
    IF s = <<>> THEN <<x>>
    ELSE IF StrLess(x, Head(s)) THEN <<x>> \o s
    ELSE <<Head(s)>> \o InsertSorted(x, Tail(s))

\* sort.Strings
RECURSIVE SortStrings(_)
SortStrings(s) ==
    IF s = <<>> THEN <<>> ELSE InsertSorted(Head(s), SortStrings(Tail(s)))

Digits == <<"0", "1", "2", "3", "4", "5", "6", "7", "8", "9">>

\* fmt.Sprintf("%d", n) for n >= 0
RECURSIVE FormatInt(_)
FormatInt(n) ==
    IF n < 10 THEN <<Digits[n + 1]>>
    ELSE FormatInt(n \div 10) \o <<Digits[(n % 10) + 1]>>

IsDigit(c) == \E i \in 1..10 : Digits[i] = c

DigitValue(c) == (CHOOSE i \in 1..10 : Digits[i] = c) - 1

RECURSIVE ParseDigits(_, _)
ParseDigits(s, acc) ==
    IF s = <<>> THEN acc ELSE ParseDigits(Tail(s), acc * 10 + DigitValue(Head(s)))

\* strconv.ParseInt(s, 10, 64) on the unsigned decimal strings of the model:
\* the empty string and a string with a non-digit are syntax errors
ParseInt(s) ==
    IF s = <<>> \/ \E i \in 1..Len(s) : ~IsDigit(s[i])
    THEN [err |-> "syntax", val |-> 0]
    ELSE [err |-> "nil", val |-> ParseDigits(s, 0)]

\* a Go []string: nil, or a (possibly empty) list
Slice(s) == [nil |-> FALSE, s |-> s]
NilSlice == [nil |-> TRUE, s |-> <<>>]

(***************************************************************************)
(* Distinguished names.                                                    *)
(***************************************************************************)
Ava(t, v) == [Type |-> t, Value |-> v]
Rdn(t, v) == <<Ava(t, v)>>

\* JoinRDNs: "type=value" of the FIRST attribute of every RDN, comma-joined
JoinRDNs(rdns) == [i \in 1..Len(rdns) |-> <<rdns[i][1]>>]

\* NewLdapDN / ldap.ParseDN: a type/value pair without a type is a parse error
NewLdapDN(distinguishedName) ==
    IF \E i \in 1..Len(distinguishedName) :
          \E j \in 1..Len(distinguishedName[i]) : distinguishedName[i][j].Type = ""
    THEN [err |-> "error parsing DN", RDNs |-> <<>>]
    ELSE [err |-> "nil", RDNs |-> distinguishedName]

\* strings.EqualFold on the attribute types of the model
ToUpper(t) ==
    CASE t = "cn" -> "CN"
      [] t = "ou" -> "OU"
      [] t = "dc" -> "DC"
      [] OTHER -> t

AvaEqual(a, b) == ToUpper(a.Type) = ToUpper(b.Type) /\ a.Value = b.Value

RdnEqual(r, o) ==
    /\ Len(r) = Len(o)
    /\ \A i \in 1..Len(r) : \E j \in 1..Len(o) : AvaEqual(r[i], o[j])

\* LdapDN.Equal (ldap.DN.Equal): same length, RDNs equal position by position
Equal(dn, other) ==
    /\ Len(dn.RDNs) = Len(other.RDNs)
    /\ \A i \in 1..Len(dn.RDNs) : RdnEqual(dn.RDNs[i], other.RDNs[i])

\* LdapDN.RDN (indexes RDNs[0]: only for a DN with a component)
RDN(dn) == JoinRDNs(<<dn.RDNs[1]>>)

\* a faulty ParentDN that takes a DN of two components for a root
ParentDNOfLongOnly(dn) == IF Len(dn.RDNs) < 3 THEN <<>> ELSE JoinRDNs(Tail(dn.RDNs))

\* LdapDN.ParentDN
ParentDN(dn) == IF Len(dn.RDNs) < 2 THEN <<>> ELSE JoinRDNs(Tail(dn.RDNs))

(***************************************************************************)
(* Distinguished names as text: ldap.ParseDN and the string JoinRDNs       *)
(* builds.  The attribute types of the model are CN, OU and DC.            *)
(***************************************************************************)
TypeChars(t) ==
    CASE t = "CN" -> <<"C", "N">>
      [] t = "OU" -> <<"O", "U">>
      [] t = "DC" -> <<"D", "C">>
      [] t = "cn" -> <<"c", "n">>
      [] t = "ou" -> <<"o", "u">>
      [] t = "dc" -> <<"d", "c">>
      [] OTHER -> <<>>

TypeNames == {"CN", "OU", "DC", "cn", "ou", "dc"}

\* the attribute type a run of characters spells
TypeName(s) ==
    IF s = <<>> THEN ""
    ELSE IF \E t \in TypeNames : TypeChars(t) = s
    THEN CHOOSE t \in TypeNames : TypeChars(t) = s
    ELSE "other"

\* the characters ParseDN takes literally after a backslash
Specials == {" ", "\"", "#", "+", ",", ";", "<", "=", ">", "\\"}

\* stringFromBuffer: the buffer without its unescaped trailing spaces
StringFromBuffer(st) == SubSeq(st.buffer, 1, Len(st.buffer) - st.trailing)

\* ParseDN's loop from character i on; st is the parser's state.  Escaped
\* characters other than the specials (hex-encoded octets) and BER values are
\* not among the model's inputs and end the parse with an error.
RECURSIVE ParseFrom(_, _, _)
ParseFrom(str, i, st) ==
    IF i > Len(str)
    THEN IF Len(st.buffer) > 0
         THEN IF st.type = ""
              THEN [err |-> "DN ended with incomplete type, value pair", RDNs |-> <<>>]
              ELSE [err |-> "nil",
                    RDNs |-> Append(st.dn,
                                Append(st.rdn, Ava(st.type, StringFromBuffer(st))))]
         ELSE [err |-> "nil", RDNs |-> st.dn]
    ELSE
      LET char == str[i]
      IN  CASE st.escaping ->
                 IF char \in Specials
                 THEN ParseFrom(str, i + 1,
                        [st EXCEPT !.escaping = FALSE, !.trailing = 0,
                                   !.buffer = Append(@, char)])
                 ELSE [err |-> "failed to decode escaped character", RDNs |-> <<>>]
            [] ~st.escaping /\ char = "\\" ->
                 ParseFrom(str, i + 1, [st EXCEPT !.escaping = TRUE, !.trailing = 0])
            [] ~st.escaping /\ char = "=" ->
                 ParseFrom(str, i + 1,
                    [st EXCEPT !.type = TypeName(StringFromBuffer(st)),
                               !.buffer = <<>>, !.trailing = 0])
            [] ~st.escaping /\ char \in {",", "+"} ->
                 IF st.type = ""
                 THEN [err |-> "incomplete type, value pair", RDNs |-> <<>>]
                 ELSE LET rdn == Append(st.rdn, Ava(st.type, StringFromBuffer(st)))
                      IN  ParseFrom(str, i + 1,
                             [st EXCEPT !.type = "", !.buffer = <<>>, !.trailing = 0,
                                        !.rdn = IF char = "," THEN <<>> ELSE rdn,
                                        !.dn = IF char = "," THEN Append(@, rdn) ELSE @])
            [] ~st.escaping /\ char = " " /\ st.buffer = <<>> ->
                 ParseFrom(str, i + 1, st)
            [] OTHER ->
                 ParseFrom(str, i + 1,
                    [st EXCEPT !.buffer = Append(@, char),
                               !.trailing = IF char = " " THEN @ + 1 ELSE 0])

\* ldap.ParseDN
ParseDN(str) ==
    ParseFrom(str, 1, [dn |-> <<>>, rdn |-> <<>>, type |-> "", buffer |-> <<>>,
                       escaping |-> FALSE, trailing |-> 0])

\* strings.Join(segments, ","), each segment fmt.Sprintf("%s=%s", Type, Value)
\* of the attribute JoinRDNs kept; the value goes out as it is, unescaped
RECURSIVE JoinSegments(_)
JoinSegments(rdns) ==
    IF rdns = <<>> THEN <<>>
    ELSE TypeChars(rdns[1][1].Type) \o <<"=">> \o rdns[1][1].Value
            \o (IF Len(rdns) > 1 THEN <<",">> \o JoinSegments(Tail(rdns)) ELSE <<>>)

\* NewLdapDN on the text of a DN
NewLdapDNOf(str) ==
    With(ParseDN(str),
         LAMBDA parsedDN :
            IF parsedDN.err # "nil" THEN [err |-> "error parsing DN", RDNs |-> <<>>]
            ELSE parsedDN)

(***************************************************************************)
(* The names of the model.                                                 *)
(***************************************************************************)
SearchBase == <<Rdn("DC", <<"e">>), Rdn("DC", <<"c">>)>>
Widgets    == <<Rdn("OU", <<"w">>)>> \o SearchBase
Gadgets    == <<Rdn("OU", <<"p">>)>> \o SearchBase
Missing    == <<Rdn("OU", <<"o">>)>> \o SearchBase

alice == <<"a", "l", "i", "c", "e">>
bob   == <<"b", "o", "b">>
carol == <<"c", "a", "r", "o", "l">>

Child(name, container) == <<Rdn("CN", name)>> \o container

(***************************************************************************)
(* The directory server: dir maps the DN of every object to the object.    *)
(***************************************************************************)
NoAttrs == [a \in {} |-> <<>>]

Object(class, attrs) == [objectClass |-> class, attrs |-> attrs]

\* server-side DN matching: attribute types are case-insensitive
NormDN(dn) == [i \in 1..Len(dn) |-> [j \in 1..Len(dn[i]) |->
                  Ava(ToUpper(dn[i][j].Type), dn[i][j].Value)]]

Resolve(d, dn) == {x \in DOMAIN d : NormDN(x) = NormDN(dn)}

Exists(d, dn) == Resolve(d, dn) # {}

InSubtree(base, dn) ==
    /\ Len(dn) >= Len(base)
    /\ SubSeq(dn, Len(dn) - Len(base) + 1, Len(dn)) = base

\* the attributes the server never returns
WriteOnly == {"unicodePwd"}

\* the attributes of a search result entry: all readable ones when the
\* request names none, else those named that the object has
ReturnedAttrs(obj, attributes) ==
    LET names == IF attributes = <<>>
                 THEN DOMAIN obj.attrs \ WriteOnly
                 ELSE {attributes[i] : i \in 1..Len(attributes)}
                         \cap (DOMAIN obj.attrs \ WriteOnly)
    IN  [a \in names |-> obj.attrs[a]]

FilterMatches(d, dn, filter) ==
    /\ \/ "*" \in filter.classes
       \/ d[dn].objectClass \in filter.classes
    /\ IF filter.field = "objectClass"
       THEN TRUE
       ELSE IF filter.field = "distinguishedName"
       THEN NormDN(dn) = NormDN(filter.value)
       ELSE /\ filter.field \in DOMAIN d[dn].attrs
            /\ \E i \in 1..Len(d[dn].attrs[filter.field]) :
                  d[dn].attrs[filter.field][i] = filter.value

\* Conn.Search: subtree search under base; the f-th request of a call is the
\* one the transport fails (f = 0: none fails); a base the server does not
\* have is an error
ConnSearch(d, base, filter, attributes, reqs, f) ==
    LET ok  == Len(reqs) + 1 # f
        req == [kind |-> "Search", base |-> base, filter |-> filter, ok |-> ok]
    IN  IF ~ok
        THEN [err |-> "transport", Entries |-> {}, reqs |-> Append(reqs, req)]
        ELSE IF ~Exists(d, base)
        THEN [err |-> "no such object", Entries |-> {}, reqs |-> Append(reqs, req)]
        ELSE [err |-> "nil",
              Entries |-> {[DN |-> dn, Attributes |-> ReturnedAttrs(d[dn], attributes)] :
                             dn \in {x \in DOMAIN d : InSubtree(base, x)
                                                       /\ FilterMatches(d, x, filter)}},
              reqs |-> Append(reqs, req)]

(***************************************************************************)
(* LdapClient: lookups and existence checks.                               *)
(***************************************************************************)
LdapSearch(d, filter, attributes, reqs, f) ==
    ConnSearch(d, SearchBase, filter, attributes, reqs, f)

NoEntry == [DN |-> <<>>, Attributes |-> NoAttrs]

\* a faulty GetEntry that takes one of several matches instead of refusing them
GetEntryAnyMatch(d, objectName, searchField, objectClass, attributes, reqs, f) ==
    With(LdapSearch(d, [classes |-> {objectClass}, field |-> searchField,
                        value |-> objectName], attributes, reqs, f),
         LAMBDA results :
            IF results.err # "nil"
            THEN [err |-> results.err, entry |-> NoEntry, reqs |-> results.reqs]
            ELSE IF Cardinality(results.Entries) = 0
            THEN [err |-> "no entry returned", entry |-> NoEntry, reqs |-> results.reqs]
            ELSE [err |-> "nil", entry |-> CHOOSE x \in results.Entries : TRUE,
                  reqs |-> results.reqs])

GetEntry(d, objectName, searchField, objectClass, attributes, reqs, f) ==
    With(LdapSearch(d, [classes |-> {objectClass}, field |-> searchField,
                        value |-> objectName], attributes, reqs, f),
         LAMBDA results :
            IF results.err # "nil"
            THEN [err |-> results.err, entry |-> NoEntry, reqs |-> results.reqs]
            ELSE IF Cardinality(results.Entries) > 1
            THEN [err |-> "too many results", entry |-> NoEntry, reqs |-> results.reqs]
            ELSE IF Cardinality(results.Entries) = 0
            THEN [err |-> "no entry returned", entry |-> NoEntry, reqs |-> results.reqs]
            ELSE [err |-> "nil", entry |-> CHOOSE x \in results.Entries : TRUE,
                  reqs |-> results.reqs])

\* an LdapEntry handle; bound = FALSE is the empty &LdapEntry{} of a failed lookup
NoHandle == [bound |-> FALSE, DN |-> <<>>, Attributes |-> NoAttrs,
             requestedAttributes |-> <<>>]

GetObject(d, objectName, searchField, objectClass, attributes, reqs, f) ==
    With(GetEntry(d, objectName, searchField, objectClass, attributes, reqs, f),
         LAMBDA r :
            IF r.err # "nil"
            THEN [err |-> r.err, val |-> NoHandle, reqs |-> r.reqs]
            ELSE [err |-> "nil",
                  val |-> [bound |-> TRUE, DN |-> r.entry.DN,
                           Attributes |-> r.entry.Attributes,
                           requestedAttributes |-> attributes],
                  reqs |-> r.reqs])

GetObjectByDN(d, distinguishedName, attributes, reqs, f) ==
    GetObject(d, distinguishedName, "distinguishedName", "*", attributes, reqs, f)

GetObjectBySAMAccountName(d, sAMAccountName, attributes, reqs, f) ==
    GetObject(d, sAMAccountName, "sAMAccountName", "*", attributes, reqs, f)

ObjectExists(d, objectDN, objectClass, reqs, f) ==
    With(LdapSearch(d, [classes |-> {objectClass}, field |-> "distinguishedName",
                        value |-> objectDN], <<>>, reqs, f),
         LAMBDA results :
            IF results.err # "nil"
            THEN [val |-> FALSE, err |-> results.err, reqs |-> results.reqs]
            ELSE IF Cardinality(results.Entries) > 1
            THEN [val |-> FALSE, err |-> "too many results", reqs |-> results.reqs]
            ELSE IF Cardinality(results.Entries) = 0
            THEN [val |-> FALSE, err |-> "nil", reqs |-> results.reqs]
            ELSE [val |-> TRUE, err |-> "nil", reqs |-> results.reqs])

ContainerClasses == {"organizationalUnit", "container", "domain"}

\* a faulty ContainerExists that takes every DN for a container
ContainerExistsAlways(d, objectDN, reqs, f) ==
    [val |-> TRUE, err |-> "nil", reqs |-> reqs]

\* LdapClient.ContainerExists
ContainerExists(d, objectDN, reqs, f) ==
    With(LdapSearch(d, [classes |-> ContainerClasses, field |-> "distinguishedName",
                        value |-> objectDN], <<>>, reqs, f),
         LAMBDA results :
            IF results.err # "nil"
            THEN [val |-> FALSE, err |-> results.err, reqs |-> results.reqs]
            ELSE IF Cardinality(results.Entries) > 1
            THEN [val |-> FALSE, err |-> "too many results", reqs |-> results.reqs]
            ELSE IF Cardinality(results.Entries) = 0
            THEN [val |-> FALSE, err |-> "nil", reqs |-> results.reqs]
            ELSE [val |-> TRUE, err |-> "nil", reqs |-> results.reqs])

\* a faulty AccountExists that reports several matches as existence
AccountExistsAnyMatch(d, sAMAccountName, reqs, f) ==
    With(LdapSearch(d, [classes |-> {"*"}, field |-> "sAMAccountName",
                        value |-> sAMAccountName], <<>>, reqs, f),
         LAMBDA results :
            IF results.err # "nil"
            THEN [val |-> FALSE, err |-> results.err, reqs |-> results.reqs]
            ELSE IF Cardinality(results.Entries) = 0
            THEN [val |-> FALSE, err |-> "nil", reqs |-> results.reqs]
            ELSE [val |-> TRUE, err |-> "nil", reqs |-> results.reqs])

AccountExists(d, sAMAccountName, reqs, f) ==
    With(LdapSearch(d, [classes |-> {"*"}, field |-> "sAMAccountName",
                        value |-> sAMAccountName], <<>>, reqs, f),
         LAMBDA results :
            IF results.err # "nil"
            THEN [val |-> FALSE, err |-> results.err, reqs |-> results.reqs]
            ELSE IF Cardinality(results.Entries) > 1
            THEN [val |-> FALSE, err |-> "too many results", reqs |-> results.reqs]
            ELSE IF Cardinality(results.Entries) = 0
            THEN [val |-> FALSE, err |-> "nil", reqs |-> results.reqs]
            ELSE [val |-> TRUE, err |-> "nil", reqs |-> results.reqs])

(***************************************************************************)
(* The directory server: writes.                                           *)
(***************************************************************************)
ServerParent(dn) == IF Len(dn) < 2 THEN <<>> ELSE Tail(dn)

\* one Replace/Add/Delete change applied to an attribute map; an attribute
\* left without values disappears
ApplyChange(attrs, c) ==
    LET old  == IF c.attr \in DOMAIN attrs THEN attrs[c.attr] ELSE <<>>
        new  == CASE c.op = "Replace" -> c.vals
                  [] c.op = "Add"     -> old \o c.vals
                  [] c.op = "Delete"  ->
                        SelectSeq(old, LAMBDA v : \A i \in 1..Len(c.vals) : c.vals[i] # v)
        keep == IF new = <<>> THEN (DOMAIN attrs) \ {c.attr}
                              ELSE (DOMAIN attrs) \cup {c.attr}
    IN  [a \in keep |-> IF a = c.attr THEN new ELSE attrs[a]]

RECURSIVE ApplyChanges(_, _)
ApplyChanges(attrs, changes) ==
    IF changes = {} THEN attrs
    ELSE LET c == CHOOSE x \in changes : TRUE
         IN  ApplyChanges(ApplyChange(attrs, c), changes \ {c})

\* the result code with which the server refuses a change: adding a value the
\* attribute has, or deleting one it has not
Refusal(attrs, c) ==
    LET old == IF c.attr \in DOMAIN attrs THEN attrs[c.attr] ELSE <<>>
        has(v) == \E i \in 1..Len(old) : old[i] = v
    IN  CASE c.op = "Add" /\ (\E i \in 1..Len(c.vals) : has(c.vals[i])) ->
                "attribute or value exists"
          [] c.op = "Delete" /\ (\E i \in 1..Len(c.vals) : ~has(c.vals[i])) ->
                "no such attribute"
          [] OTHER -> "nil"

\* Conn.Modify: changes is the set of the request's changes (at most one per
\* attribute in this program)
ConnModify(d, dn, changes, reqs, f) ==
    LET ok  == Len(reqs) + 1 # f
        req == [kind |-> "Modify", dn |-> dn, changes |-> changes, ok |-> ok]
        rs  == Append(reqs, req)
    IN  IF ~ok THEN [err |-> "transport", dir |-> d, reqs |-> rs]
        ELSE IF ~Exists(d, dn) THEN [err |-> "no such object", dir |-> d, reqs |-> rs]
        ELSE LET x == CHOOSE y \in Resolve(d, dn) : TRUE
                 refused == {Refusal(d[x].attrs, c) : c \in changes} \ {"nil"}
             IN  IF refused # {}
                 THEN [err |-> CHOOSE r \in refused : TRUE, dir |-> d, reqs |-> rs]
                 ELSE [err |-> "nil",
                       dir |-> [d EXCEPT ![x].attrs = ApplyChanges(@, changes)],
                       reqs |-> rs]

\* Conn.Del: only an object without subordinates is deleted
ConnDel(d, dn, reqs, f) ==
    LET ok  == Len(reqs) + 1 # f
        req == [kind |-> "Del", dn |-> dn, ok |-> ok]
        rs  == Append(reqs, req)
    IN  IF ~ok THEN [err |-> "transport", dir |-> d, reqs |-> rs]
        ELSE IF ~Exists(d, dn) THEN [err |-> "no such object", dir |-> d, reqs |-> rs]
        ELSE LET x == CHOOSE y \in Resolve(d, dn) : TRUE
             IN  IF \E y \in DOMAIN d : y # x /\ InSubtree(x, y)
                 THEN [err |-> "not allowed on non-leaf", dir |-> d, reqs |-> rs]
                 ELSE [err |-> "nil", dir |-> [y \in (DOMAIN d) \ {x} |-> d[y]],
                       reqs |-> rs]

\* Conn.Add
ConnAdd(d, dn, class, attrs, reqs, f) ==
    LET ok  == Len(reqs) + 1 # f
        req == [kind |-> "Add", dn |-> dn, objectClass |-> class, attrs |-> attrs,
                ok |-> ok]
        rs  == Append(reqs, req)
        has == {a \in DOMAIN attrs : attrs[a] # <<>>}
    IN  IF ~ok THEN [err |-> "transport", dir |-> d, reqs |-> rs]
        ELSE IF Exists(d, dn) THEN [err |-> "entry already exists", dir |-> d, reqs |-> rs]
        ELSE IF dn = <<>> \/ ~Exists(d, ServerParent(dn))
        THEN [err |-> "no such object", dir |-> d, reqs |-> rs]
        ELSE [err |-> "nil",
              dir |-> [x \in (DOMAIN d) \cup {dn} |->
                         IF x = dn THEN Object(class, [a \in has |-> attrs[a]])
                         ELSE d[x]],
              reqs |-> rs]

\* Conn.ModifyDN with deleteOldRDN: the object and its subtree move to
\* newRDN under newSuperior (under the old parent when newSuperior is empty)
ConnModifyDN(d, dn, newRDN, newSuperior, reqs, f) ==
    LET ok  == Len(reqs) + 1 # f
        req == [kind |-> "ModifyDN", dn |-> dn, newRDN |-> newRDN,
                newSuperior |-> newSuperior, ok |-> ok]
        rs  == Append(reqs, req)
    IN  IF ~ok THEN [err |-> "transport", dir |-> d, reqs |-> rs]
        ELSE IF ~Exists(d, dn) THEN [err |-> "no such object", dir |-> d, reqs |-> rs]
        ELSE
          LET old    == CHOOSE y \in Resolve(d, dn) : TRUE
              parent == IF newSuperior = <<>> THEN ServerParent(old) ELSE newSuperior
              target == newRDN \o parent
              moved(x) == IF InSubtree(old, x)
                          THEN SubSeq(x, 1, Len(x) - Len(old)) \o target
                          ELSE x
          IN  IF ~Exists(d, parent) \/ InSubtree(old, parent)
              THEN [err |-> "no such object", dir |-> d, reqs |-> rs]
              ELSE IF Exists(d, target) /\ NormDN(target) # NormDN(old)
              THEN [err |-> "entry already exists", dir |-> d, reqs |-> rs]
              ELSE [err |-> "nil",
                    dir |-> [y \in {moved(x) : x \in DOMAIN d} |->
                               d[CHOOSE x \in DOMAIN d : moved(x) = y]],
                    reqs |-> rs]

(***************************************************************************)
(* LdapEntry: the attribute cache.                                         *)
(***************************************************************************)
\* ldap.Entry.GetAttributeValues: the cached values, or an empty (non-nil) list
EntryValues(e, name) ==
    IF name \in DOMAIN e.Attributes THEN e.Attributes[name] ELSE <<>>

\* a faulty Refresh that drops the cached attributes when the re-fetch fails
RefreshClearing(e, d, reqs, f) ==
    With(GetObjectByDN(d, e.DN, e.requestedAttributes, reqs, f),
         LAMBDA r :
            IF r.err # "nil"
            THEN [err |-> r.err, entry |-> [e EXCEPT !.Attributes = NoAttrs],
                  reqs |-> r.reqs]
            ELSE [err |-> "nil", entry |-> r.val, reqs |-> r.reqs])

\* a faulty GetAttributeValues that answers from the cache alone
GetAttributeValuesCached(e, d, name, reqs, f) ==
    [err |-> "nil", val |-> EntryValues(e, name), entry |-> e, reqs |-> reqs]

\* LdapEntry.Refresh: the handle is replaced only when the re-fetch succeeds
Refresh(e, d, reqs, f) ==
    With(GetObjectByDN(d, e.DN, e.requestedAttributes, reqs, f),
         LAMBDA r :
            IF r.err # "nil"
            THEN [err |-> r.err, entry |-> e, reqs |-> r.reqs]
            ELSE [err |-> "nil", entry |-> r.val, reqs |-> r.reqs])

\* LdapEntry.GetAttributeValues
GetAttributeValues(e, d, name, reqs, f) ==
    IF name \in DOMAIN e.Attributes
    THEN [err |-> "nil", val |-> EntryValues(e, name), entry |-> e, reqs |-> reqs]
    ELSE With(Refresh([e EXCEPT !.requestedAttributes = Append(@, name)], d, reqs, f),
              LAMBDA r :
                 IF r.err # "nil"
                 THEN [err |-> "error refreshing LdapEntry", val |-> <<>>,
                       entry |-> r.entry, reqs |-> r.reqs]
                 ELSE [err |-> "nil", val |-> EntryValues(r.entry, name),
                       entry |-> r.entry, reqs |-> r.reqs])

\* LdapEntry.GetAttributeValue: the first value, or the empty string
GetAttributeValue(e, d, name, reqs, f) ==
    With(GetAttributeValues(e, d, name, reqs, f),
         LAMBDA r :
            IF r.err # "nil" THEN [r EXCEPT !.val = <<>>]
            ELSE IF Len(r.val) > 0 THEN [r EXCEPT !.val = r.val[1]]
            ELSE [r EXCEPT !.val = <<>>])

\* a faulty stringSlicesEqual that compares without sorting
stringSlicesEqualOrdered(a, b) ==
    IF a.nil # b.nil THEN FALSE
    ELSE IF Len(a.s) # Len(b.s) THEN FALSE
    ELSE \A i \in 1..Len(a.s) : a.s[i] = b.s[i]

\* stringSlicesEqual on Go slices: both are sorted, then nil-ness, length and
\* elements are compared
stringSlicesEqual(a, b) ==
    LET sa == SortStrings(a.s)
        sb == SortStrings(b.s)
    IN  IF a.nil # b.nil THEN FALSE
        ELSE IF Len(sa) # Len(sb) THEN FALSE
        ELSE \A i \in 1..Len(sa) : sa[i] = sb[i]

\* the Replace changes UpdateAttributes puts in its request: one for every
\* attribute of the map that stringSlicesEqual reports as different from the
\* cache; the new values go out as stringSlicesEqual left them, sorted
UpdateChanges(e, attributeMap) ==
    {[op |-> "Replace", attr |-> attr, vals |-> SortStrings(attributeMap[attr].s)] :
        attr \in {a \in DOMAIN attributeMap :
                    ~stringSlicesEqual(Slice(EntryValues(e, a)), attributeMap[a])}}

\* LdapEntry.UpdateAttributes; stringSlicesEqual sorts the cached value lists
\* it is handed in place, and nothing else of the cache changes
UpdateAttributes(e, d, attributeMap, reqs, f) ==
    LET e1 == [e EXCEPT !.Attributes =
                  [a \in DOMAIN e.Attributes |->
                      IF a \in DOMAIN attributeMap THEN SortStrings(e.Attributes[a])
                      ELSE e.Attributes[a]]]
    IN  With(UpdateChanges(e, attributeMap),
             LAMBDA changes :
                IF Cardinality(changes) > 0
                THEN With(ConnModify(d, e.DN, changes, reqs, f),
                          LAMBDA m : [err |-> m.err, entry |-> e1, dir |-> m.dir,
                                      reqs |-> m.reqs])
                ELSE [err |-> "nil", entry |-> e1, dir |-> d, reqs |-> reqs])

\* LdapEntry.UpdateAttribute
UpdateAttribute(e, d, name, values, reqs, f) ==
    UpdateAttributes(e, d, [a \in {name} |-> values], reqs, f)

(***************************************************************************)
(* LdapEntry: Move, Rename, ChangeDN.                                      *)
(***************************************************************************)
\* LdapEntry.ChangeDN; the handle's own DN is left as it was
ChangeDN(e, d, newDistinguishedName, reqs, f) ==
    LET oldDN == NewLdapDN(e.DN)
        newDN == NewLdapDN(newDistinguishedName)
    IN  With(ObjectExists(d, newDistinguishedName, "*", reqs, f),
         LAMBDA ex :
          IF ex.err # "nil" THEN [err |-> ex.err, dir |-> d, reqs |-> ex.reqs]
          ELSE IF ex.val THEN [err |-> "rename failed: already exists", dir |-> d,
                               reqs |-> ex.reqs]
          ELSE IF oldDN.err # "nil" THEN [err |-> oldDN.err, dir |-> d, reqs |-> ex.reqs]
          ELSE IF newDN.err # "nil" THEN [err |-> newDN.err, dir |-> d, reqs |-> ex.reqs]
          ELSE IF Len(newDN.RDNs) = 0
          THEN [err |-> "panic: index out of range", dir |-> d, reqs |-> ex.reqs]
          ELSE
            LET newRDN == RDN(newDN)
                sameParent == ParentDN(oldDN) = ParentDN(newDN)
                newParentDN == IF sameParent THEN <<>> ELSE ParentDN(newDN)
            IN  IF Equal(oldDN, newDN) THEN [err |-> "nil", dir |-> d, reqs |-> ex.reqs]
                ELSE With(IF sameParent
                          THEN [val |-> TRUE, err |-> "nil", reqs |-> ex.reqs]
                          ELSE ContainerExists(d, newParentDN, ex.reqs, f),
                      LAMBDA ce :
                        IF ce.err # "nil"
                        THEN [err |-> ce.err, dir |-> d, reqs |-> ce.reqs]
                        ELSE IF ~ce.val
                        THEN [err |-> "cannot move object to non-existent or non-container object",
                              dir |-> d, reqs |-> ce.reqs]
                        ELSE With(ConnModifyDN(d, e.DN, newRDN, newParentDN, ce.reqs, f),
                                  LAMBDA m : [err |-> m.err, dir |-> m.dir,
                                              reqs |-> m.reqs])))

\* LdapEntry.Move: the result of ChangeDN is dropped, nil is returned
Move(e, d, destinationContainer, reqs, f) ==
    LET dn == NewLdapDN(e.DN)
        destinationDN == NewLdapDN(destinationContainer)
    IN  IF dn.err # "nil" THEN [err |-> dn.err, dir |-> d, reqs |-> reqs]
        ELSE IF destinationDN.err # "nil"
        THEN [err |-> destinationDN.err, dir |-> d, reqs |-> reqs]
        ELSE IF Len(dn.RDNs) = 0
        THEN [err |-> "panic: slice bounds out of range", dir |-> d, reqs |-> reqs]
        ELSE With(ChangeDN(e, d, JoinRDNs(<<dn.RDNs[1]>> \o destinationDN.RDNs), reqs, f),
                  LAMBDA r : [err |-> "nil", dir |-> r.dir, reqs |-> r.reqs])

\* LdapEntry.Rename: the result of ChangeDN is dropped, nil is returned
Rename(e, d, newRDN, reqs, f) ==
    LET dn == NewLdapDN(e.DN)
        rDN == NewLdapDN(newRDN)
    IN  IF dn.err # "nil" THEN [err |-> dn.err, dir |-> d, reqs |-> reqs]
        ELSE IF rDN.err # "nil" THEN [err |-> rDN.err, dir |-> d, reqs |-> reqs]
        ELSE IF Len(dn.RDNs) = 0
        THEN [err |-> "panic: slice bounds out of range", dir |-> d, reqs |-> reqs]
        ELSE With(ChangeDN(e, d, JoinRDNs(rDN.RDNs \o Tail(dn.RDNs)), reqs, f),
                  LAMBDA r : [err |-> "nil", dir |-> r.dir, reqs |-> r.reqs])

\* LdapOU.Rename
OURename(e, d, distinguishedName, reqs, f) ==
    ChangeDN(e, d, distinguishedName, reqs, f)

(***************************************************************************)
(* LdapAccount: userAccountControl.                                        *)
(***************************************************************************)
Accountdisable == 2
NormalAccount == 512
DONT_EXPIRE_PASSWORD == 65536

RECURSIVE BitOr(_, _)
BitOr(a, b) ==
    IF a = 0 THEN b
    ELSE IF b = 0 THEN a
    ELSE (IF a % 2 = 1 \/ b % 2 = 1 THEN 1 ELSE 0) + 2 * BitOr(a \div 2, b \div 2)

\* Go's a &^ b
RECURSIVE BitAndNot(_, _)
BitAndNot(a, b) ==
    IF a = 0 THEN 0
    ELSE (IF a % 2 = 1 /\ b % 2 = 0 THEN 1 ELSE 0) + 2 * BitAndNot(a \div 2, b \div 2)

\* uac.IsSet
IsSet(value, flag) == BitAndNot(flag, value) = 0

\* LdapAccount.GetUserAccountControl
GetUserAccountControl(e, d, reqs, f) ==
    With(GetAttributeValue(e, d, "userAccountControl", reqs, f),
         LAMBDA r :
            IF r.err # "nil"
            THEN [err |-> r.err, val |-> -1, entry |-> r.entry, reqs |-> r.reqs]
            ELSE With(ParseInt(r.val),
                      LAMBDA p : [err |-> p.err, val |-> p.val, entry |-> r.entry,
                                  reqs |-> r.reqs]))

\* a faulty SetUACFlag that writes only when the server still holds the value
\* the handle has cached
SetUACFlagIfUnchanged(e, d, uacFlags, reqs, f) ==
    IF \E x \in Resolve(d, e.DN) :
          d[x].attrs["userAccountControl"] # EntryValues(e, "userAccountControl")
    THEN [err |-> "userAccountControl changed", entry |-> e, dir |-> d, reqs |-> reqs]
    ELSE UpdateAttribute(e, d, "userAccountControl", Slice(<<FormatInt(uacFlags)>>),
                         reqs, f)

\* LdapAccount.SetUACFlag
SetUACFlag(e, d, uacFlags, reqs, f) ==
    UpdateAttribute(e, d, "userAccountControl", Slice(<<FormatInt(uacFlags)>>), reqs, f)

\* LdapAccount.AddUACFlag
AddUACFlag(e, d, flags, reqs, f) ==
    With(GetUserAccountControl(e, d, reqs, f),
         LAMBDA cur :
            IF cur.err # "nil"
            THEN [err |-> cur.err, entry |-> cur.entry, dir |-> d, reqs |-> cur.reqs]
            ELSE SetUACFlag(cur.entry, d, BitOr(cur.val, flags), cur.reqs, f))

\* LdapAccount.RemoveUACFlag
RemoveUACFlag(e, d, flags, reqs, f) ==
    With(GetUserAccountControl(e, d, reqs, f),
         LAMBDA cur :
            IF cur.err # "nil"
            THEN [err |-> cur.err, entry |-> cur.entry, dir |-> d, reqs |-> cur.reqs]
            ELSE SetUACFlag(cur.entry, d, BitAndNot(cur.val, flags), cur.reqs, f))

\* the directory after another client replaced userAccountControl of the
\* object at dn by v
OtherWrite(d, dn, v) ==
    ConnModify(d, dn, {[op |-> "Replace", attr |-> "userAccountControl",
                        vals |-> <<FormatInt(v)>>]}, <<>>, 0).dir

\* AddUACFlag (add) or RemoveUACFlag, with another client's write of
\* userAccountControl reaching the server after the call's
\* GetUserAccountControl and before its SetUACFlag
UACFlagRaced(e, d, add, flags, other, reqs, f) ==
    With(GetUserAccountControl(e, d, reqs, f),
         LAMBDA currentUAC :
            IF currentUAC.err # "nil"
            THEN [err |-> currentUAC.err, entry |-> currentUAC.entry, dir |-> d,
                  reqs |-> currentUAC.reqs, read |-> -1]
            ELSE With(SetUACFlag(currentUAC.entry, OtherWrite(d, e.DN, other),
                                 IF add THEN BitOr(currentUAC.val, flags)
                                        ELSE BitAndNot(currentUAC.val, flags),
                                 currentUAC.reqs, f),
                      LAMBDA s : [err |-> s.err, entry |-> s.entry, dir |-> s.dir,
                                  reqs |-> s.reqs, read |-> currentUAC.val]))

\* LdapAccount.Enable
Enable(e, d, reqs, f) == RemoveUACFlag(e, d, Accountdisable, reqs, f)

\* LdapAccount.Disable
Disable(e, d, reqs, f) == AddUACFlag(e, d, Accountdisable, reqs, f)

\* LdapAccount.IsEnabled
IsEnabled(e, d, reqs, f) ==
    With(GetUserAccountControl(e, d, reqs, f),
         LAMBDA cur :
            IF cur.err # "nil"
            THEN [err |-> cur.err, val |-> TRUE, entry |-> cur.entry, reqs |-> cur.reqs]
            ELSE [err |-> "nil", val |-> ~IsSet(cur.val, Accountdisable),
                  entry |-> cur.entry, reqs |-> cur.reqs])

(***************************************************************************)
(* Passwords and account creation.                                         *)
(***************************************************************************)
\* fmt.Sprintf("%q", s): quoted, with quote and backslash escaped
RECURSIVE QuoteBody(_)
QuoteBody(s) ==
    IF s = <<>> THEN <<>>
    ELSE (IF Head(s) \in {"\"", "\\"} THEN <<"\\", Head(s)>> ELSE <<Head(s)>>)
            \o QuoteBody(Tail(s))

Quote(s) == <<"\"">> \o QuoteBody(s) \o <<"\"">>

\* UTF-16 little endian of the characters of the model, all below U+0100:
\* the low byte (the character itself when ASCII), then a zero byte
RECURSIVE UTF16LE(_)
UTF16LE(s) ==
    IF s = <<>> THEN <<>>
    ELSE <<IF Head(s) = "U+00E9" THEN "0xE9" ELSE Head(s), "NUL">> \o UTF16LE(Tail(s))

encodePassword(password) == UTF16LE(Quote(password))

\* LdapAccount.SetPassword
SetPassword(e, d, password, reqs, f) ==
    UpdateAttribute(e, d, "unicodePwd", Slice(<<encodePassword(password)>>), reqs, f)

\* the keys of a map, in some order
RECURSIVE SetToSeq(_)
SetToSeq(S) ==
    IF S = {} THEN <<>>
    ELSE LET x == CHOOSE y \in S : TRUE IN <<x>> \o SetToSeq(S \ {x})

\* a faulty CreateObject that adds without looking for the object first
CreateObjectUnchecked(d, distinguishedName, attributes, objectClass, reqs, f) ==
    With(ObjectExists(d, distinguishedName, "*", reqs, f),
     LAMBDA ex :
        IF ex.err # "nil"
        THEN [err |-> ex.err, val |-> NoHandle, dir |-> d, reqs |-> ex.reqs]
        ELSE With(ConnAdd(d, distinguishedName, objectClass, attributes, ex.reqs, f),
              LAMBDA a :
                 IF a.err # "nil"
                 THEN [err |-> a.err, val |-> NoHandle, dir |-> d, reqs |-> a.reqs]
                 ELSE With(GetObjectByDN(a.dir, distinguishedName,
                                         SetToSeq(DOMAIN attributes), a.reqs, f),
                           LAMBDA g : [err |-> g.err, val |-> g.val, dir |-> a.dir,
                                       reqs |-> g.reqs])))

\* LdapClient.CreateObject
CreateObject(d, distinguishedName, attributes, objectClass, reqs, f) ==
    With(ObjectExists(d, distinguishedName, "*", reqs, f),
     LAMBDA ex :
        IF ex.err # "nil"
        THEN [err |-> ex.err, val |-> NoHandle, dir |-> d, reqs |-> ex.reqs]
        ELSE IF ex.val
        THEN [err |-> "object already exists", val |-> NoHandle, dir |-> d,
              reqs |-> ex.reqs]
        ELSE With(ConnAdd(d, distinguishedName, objectClass, attributes, ex.reqs, f),
              LAMBDA a :
                 IF a.err # "nil"
                 THEN [err |-> a.err, val |-> NoHandle, dir |-> d, reqs |-> a.reqs]
                 ELSE With(GetObjectByDN(a.dir, distinguishedName,
                                         SetToSeq(DOMAIN attributes), a.reqs, f),
                           LAMBDA g : [err |-> g.err, val |-> g.val, dir |-> a.dir,
                                       reqs |-> g.reqs])))

\* a faulty TrimRight that leaves the name as it is
TrimNothing(s) == s

\* strings.TrimRight(s, "$")
RECURSIVE TrimRightDollar(_)
TrimRightDollar(s) ==
    IF s # <<>> /\ s[Len(s)] = "$" THEN TrimRightDollar(SubSeq(s, 1, Len(s) - 1)) ELSE s

\* LdapClient.CreateAccount
CreateAccount(d, sAMAccountName, ou, attributes, objectClass, userAccountControl, reqs, f) ==
    LET name == IF "displayName" \in DOMAIN attributes
                THEN attributes["displayName"][1]
                ELSE TrimRightDollar(sAMAccountName)
        dn == Child(name, ou)
        attrs == [a \in (DOMAIN attributes) \cup {"sAMAccountName", "userAccountControl"} |->
                    IF a = "sAMAccountName" THEN <<sAMAccountName>>
                    ELSE IF a = "userAccountControl" THEN <<FormatInt(userAccountControl)>>
                    ELSE attributes[a]]
    IN  CreateObject(d, dn, attrs, objectClass, reqs, f)

\* a faulty CreateUserAccount that creates the account enabled
CreateUserAccountEnabled(d, sAMAccountName, password, ou, attributes, reqs, f) ==
    With(CreateAccount(d, sAMAccountName, ou, attributes, "user", NormalAccount, reqs, f),
     LAMBDA c :
        IF c.err # "nil"
        THEN [err |-> "error creating user account", val |-> NoHandle, dir |-> c.dir,
              reqs |-> c.reqs]
        ELSE IF password # <<>>
        THEN With(SetPassword(c.val, c.dir, password, c.reqs, f),
                  LAMBDA p :
                     IF p.err # "nil"
                     THEN [err |-> "error setting password", val |-> NoHandle,
                           dir |-> p.dir, reqs |-> p.reqs]
                     ELSE [err |-> "nil", val |-> p.entry, dir |-> p.dir,
                           reqs |-> p.reqs])
        ELSE [err |-> "nil", val |-> c.val, dir |-> c.dir, reqs |-> c.reqs])

\* a faulty CreateUserAccount that deletes the account again when the
\* password cannot be set
CreateUserAccountRollingBack(d, sAMAccountName, password, ou, attributes, reqs, f) ==
    With(CreateAccount(d, sAMAccountName, ou, attributes, "user",
                       BitOr(NormalAccount, Accountdisable), reqs, f),
     LAMBDA c :
        IF c.err # "nil"
        THEN [err |-> "error creating user account", val |-> NoHandle, dir |-> c.dir,
              reqs |-> c.reqs]
        ELSE IF password # <<>>
        THEN With(SetPassword(c.val, c.dir, password, c.reqs, f),
                  LAMBDA p :
                     IF p.err # "nil"
                     THEN With(ConnDel(p.dir, c.val.DN, p.reqs, f),
                               LAMBDA x : [err |-> "error setting password",
                                           val |-> NoHandle, dir |-> x.dir,
                                           reqs |-> x.reqs])
                     ELSE [err |-> "nil", val |-> p.entry, dir |-> p.dir,
                           reqs |-> p.reqs])
        ELSE [err |-> "nil", val |-> c.val, dir |-> c.dir, reqs |-> c.reqs])

\* LdapClient.CreateUserAccount
CreateUserAccount(d, sAMAccountName, password, ou, attributes, reqs, f) ==
    With(CreateAccount(d, sAMAccountName, ou, attributes, "user",
                       BitOr(NormalAccount, Accountdisable), reqs, f),
     LAMBDA c :
        IF c.err # "nil"
        THEN [err |-> "error creating user account", val |-> NoHandle, dir |-> c.dir,
              reqs |-> c.reqs]
        ELSE IF password # <<>>
        THEN With(SetPassword(c.val, c.dir, password, c.reqs, f),
                  LAMBDA p :
                     IF p.err # "nil"
                     THEN [err |-> "error setting password", val |-> NoHandle,
                           dir |-> p.dir, reqs |-> p.reqs]
                     ELSE [err |-> "nil", val |-> p.entry, dir |-> p.dir,
                           reqs |-> p.reqs])
        ELSE [err |-> "nil", val |-> c.val, dir |-> c.dir, reqs |-> c.reqs])

WorkstationTrustAccount == 4096

\* LdapClient.CreateComputerAccount
CreateComputerAccount(d, sAMAccountName, ou, attributes, reqs, f) ==
    CreateAccount(d, sAMAccountName, ou, attributes, "computer", WorkstationTrustAccount,
                  reqs, f)

\* LdapClient.GetOU
GetOU(d, distinguishedName, reqs, f) ==
    GetObject(d, distinguishedName, "distinguishedName", "organizationalUnit", <<>>, reqs, f)

\* ldap.DN.AncestorOf: d is shorter than other and equals its tail
AncestorOf(d, other) ==
    /\ Len(d.RDNs) < Len(other.RDNs)
    /\ \A i \in 1..Len(d.RDNs) :
          RdnEqual(d.RDNs[i], other.RDNs[Len(other.RDNs) - Len(d.RDNs) + i])

\* LdapClient.CreateOU; the errors of the two ParseDN calls are dropped, so an
\* unparsable name reaches AncestorOf as a nil *DN
CreateOU(d, distinguishedName, reqs, f) ==
    LET parsedSearchBase == NewLdapDN(SearchBase)
        parsedOU == NewLdapDN(distinguishedName)
    IN  IF parsedOU.err # "nil"
        THEN [err |-> "panic: nil pointer dereference", val |-> NoHandle, dir |-> d,
              reqs |-> reqs]
        ELSE IF ~AncestorOf(parsedSearchBase, parsedOU)
        THEN [err |-> "is not an ancestor of search base", val |-> NoHandle, dir |-> d,
              reqs |-> reqs]
        ELSE IF parsedOU.RDNs[1][1].Type # "OU"
        THEN [err |-> "is not an OU distinguished name", val |-> NoHandle, dir |-> d,
              reqs |-> reqs]
        ELSE With(CreateObject(d, distinguishedName, NoAttrs, "organizationalUnit",
                               reqs, f),
              LAMBDA c :
                 IF c.err # "nil"
                 THEN [err |-> c.err, val |-> NoHandle, dir |-> c.dir, reqs |-> c.reqs]
                 ELSE With(GetOU(c.dir, distinguishedName, c.reqs, f),
                           LAMBDA g : [err |-> g.err, val |-> g.val, dir |-> c.dir,
                                       reqs |-> g.reqs]))

\* a faulty CreateOUAndParents that returns the OU without the error of its
\* creation
RECURSIVE CreateOUAndParentsLenient(_, _, _, _)
CreateOUAndParentsLenient(d, distinguishedName, reqs, f) ==
    With(CreateOU(d, distinguishedName, reqs, f),
         LAMBDA c : [c EXCEPT !.err = "nil"])

\* LdapClient.CreateOUAndParents: the result of the recursive call is dropped.
\* Past the last component the parent of "" is "" again, which does not
\* exist: the recursion no longer ends once the search for it goes through.
RECURSIVE CreateOUAndParents(_, _, _, _)
CreateOUAndParents(d, distinguishedName, reqs, f) ==
    LET dn == NewLdapDN(distinguishedName)
        parentOU == ParentDN(dn)
    IN  IF dn.err # "nil"
        THEN [err |-> dn.err, val |-> NoHandle, dir |-> d, reqs |-> reqs]
        ELSE With(ObjectExists(d, parentOU, "*", reqs, f),
              LAMBDA pe :
                 IF pe.err # "nil"
                 THEN [err |-> pe.err, val |-> NoHandle, dir |-> d, reqs |-> pe.reqs]
                 ELSE IF pe.val
                 THEN CreateOU(d, distinguishedName, pe.reqs, f)
                 ELSE IF distinguishedName = <<>>
                 THEN [err |-> "fatal: stack overflow", val |-> NoHandle, dir |-> d,
                       reqs |-> pe.reqs]
                 ELSE With(CreateOUAndParents(d, parentOU, pe.reqs, f),
                           LAMBDA p :
                              IF p.err = "fatal: stack overflow"
                              THEN p
                              ELSE CreateOU(p.dir, distinguishedName, p.reqs, f)))

(***************************************************************************)
(* LdapEntry and LdapAccount: values of a multi-valued attribute.          *)
(***************************************************************************)
\* sliceIsSubset on Go slices
sliceIsSubset(parent, subset) ==
    IF Len(subset.s) = Len(parent.s) THEN stringSlicesEqual(parent, subset)
    ELSE IF Len(subset.s) > Len(parent.s) THEN FALSE
    ELSE \A i \in 1..Len(subset.s) : \E j \in 1..Len(parent.s) : parent.s[j] = subset.s[i]

\* LdapEntry.HasAttributeWithValues: the cache alone is read
HasAttributeWithValues(e, name, values) ==
    sliceIsSubset(Slice(EntryValues(e, name)), values)

\* LdapEntry.AddAttributeWithValues; when the two lists are equally long,
\* stringSlicesEqual sorts the cached list and the request's values in place
AddAttributeWithValues(e, d, name, value, reqs, f) ==
    LET sorts == Len(value.s) = Len(EntryValues(e, name))
        e1 == IF sorts /\ name \in DOMAIN e.Attributes
              THEN [e EXCEPT !.Attributes[name] = SortStrings(@)]
              ELSE e
        vals == IF sorts THEN SortStrings(value.s) ELSE value.s
    IN  IF HasAttributeWithValues(e, name, value)
        THEN [err |-> "attribute with value already exists", entry |-> e1, dir |-> d,
              reqs |-> reqs]
        ELSE With(ConnModify(d, e.DN, {[op |-> "Add", attr |-> name, vals |-> vals]},
                             reqs, f),
                  LAMBDA m : [err |-> m.err, entry |-> e1, dir |-> m.dir, reqs |-> m.reqs])

\* LdapEntry.RemoveAttributeValue: the delete is sent without a look at the
\* values the attribute has
RemoveAttributeValue(e, d, name, value, reqs, f) ==
    With(ConnModify(d, e.DN, {[op |-> "Delete", attr |-> name, vals |-> value.s]}, reqs, f),
         LAMBDA m : [err |-> m.err, entry |-> e, dir |-> m.dir, reqs |-> m.reqs])

\* LdapAccount.AddServicePrincipal
AddServicePrincipal(e, d, spn, reqs, f) ==
    AddAttributeWithValues(e, d, "servicePrincipalName", Slice(<<spn>>), reqs, f)

\* LdapAccount.GetServicePrincipals
GetServicePrincipals(e, d, reqs, f) ==
    GetAttributeValues(e, d, "servicePrincipalName", reqs, f)

\* LdapAccount.HasServicePrincipal
HasServicePrincipal(e, d, spn, reqs, f) ==
    With(GetServicePrincipals(e, d, reqs, f),
         LAMBDA r :
            IF r.err # "nil" THEN [r EXCEPT !.val = FALSE]
            ELSE [r EXCEPT !.val = \E i \in 1..Len(r.val) : r.val[i] = spn])

\* LdapAccount.RemoveServicePrincipal
RemoveServicePrincipal(e, d, spn, reqs, f) ==
    With(HasServicePrincipal(e, d, spn, reqs, f),
         LAMBDA h :
            IF h.err # "nil"
            THEN [err |-> h.err, entry |-> h.entry, dir |-> d, reqs |-> h.reqs]
            ELSE IF h.val
            THEN RemoveAttributeValue(h.entry, d, "servicePrincipalName", Slice(<<spn>>),
                                      h.reqs, f)
            ELSE [err |-> "nil", entry |-> h.entry, dir |-> d, reqs |-> h.reqs])

(***************************************************************************)
(* Deletion: LdapEntry.Delete, LdapOU.IsEmpty, LdapOU.Delete.              *)
(***************************************************************************)
\* the filter (objectClass=*)
AnyObject == [classes |-> {"*"}, field |-> "objectClass", value |-> <<"*">>]

\* LdapEntry.Delete
Delete(e, d, reqs, f) ==
    With(ConnDel(d, e.DN, reqs, f),
         LAMBDA r : [err |-> r.err, dir |-> r.dir, reqs |-> r.reqs])

\* LdapOU.IsEmpty: the subtree search under the OU's own DN returns the OU
\* itself, so more than one entry means the OU has something below it
IsEmpty(e, d, reqs, f) ==
    With(ConnSearch(d, e.DN, AnyObject, <<>>, reqs, f),
         LAMBDA result :
            IF result.err # "nil"
            THEN [err |-> result.err, val |-> FALSE, reqs |-> result.reqs]
            ELSE IF Cardinality(result.Entries) > 1
            THEN [err |-> "nil", val |-> FALSE, reqs |-> result.reqs]
            ELSE [err |-> "nil", val |-> TRUE, reqs |-> result.reqs])

\* a faulty LdapOU.Delete that does not ask whether the OU is empty
OUDeleteUnchecked(e, d, reqs, f) == Delete(e, d, reqs, f)

\* LdapOU.Delete
OUDelete(e, d, reqs, f) ==
    With(IsEmpty(e, d, reqs, f),
         LAMBDA isEmpty :
            IF isEmpty.err # "nil"
            THEN [err |-> isEmpty.err, dir |-> d, reqs |-> isEmpty.reqs]
            ELSE IF ~isEmpty.val
            THEN [err |-> "organizational unit is not empty", dir |-> d,
                  reqs |-> isEmpty.reqs]
            ELSE Delete(e, d, isEmpty.reqs, f))

\* resourceUserDelete: the account is fetched by sAMAccountName and deleted
resourceUserDelete(d, sAMAccountName, reqs, f) ==
    With(GetObjectBySAMAccountName(d, sAMAccountName, <<>>, reqs, f),
         LAMBDA account :
            IF account.err # "nil"
            THEN [err |-> account.err, dir |-> d, reqs |-> account.reqs]
            ELSE Delete(account.val, d, account.reqs, f))

\* resourceUserCreate with the optional attributes left empty: the account is
\* created (disabled) with its displayName, then enabled when enabled is set,
\* then given DONT_EXPIRE_PASSWORD when dont_expire_password is set, all on
\* the handle CreateUserAccount returned
resourceUserCreate(d, sAMAccountName, password, ou, displayName, enabled, dontExpirePassword, reqs, f) ==
    With(CreateUserAccount(d, sAMAccountName, password, ou,
                           [a \in {"displayName"} |-> <<displayName>>], reqs, f),
     LAMBDA account :
        IF account.err # "nil"
        THEN [err |-> "error creating account", dir |-> account.dir,
              reqs |-> account.reqs]
        ELSE With(IF enabled THEN Enable(account.val, account.dir, account.reqs, f)
                  ELSE [err |-> "nil", entry |-> account.val, dir |-> account.dir,
                        reqs |-> account.reqs],
              LAMBDA en :
                 IF en.err # "nil"
                 THEN [err |-> en.err, dir |-> en.dir, reqs |-> en.reqs]
                 ELSE IF dontExpirePassword
                 THEN With(AddUACFlag(en.entry, en.dir, DONT_EXPIRE_PASSWORD,
                                      en.reqs, f),
                           LAMBDA fl : [err |-> fl.err, dir |-> fl.dir,
                                        reqs |-> fl.reqs])
                 ELSE [err |-> "nil", dir |-> en.dir, reqs |-> en.reqs]))

(***************************************************************************)
(* The adldap_service_principal resource.                                  *)
(***************************************************************************)
\* strings.Index: the first position at which sep occurs in s, 0 for none
Index(s, sep) ==
    LET at == {i \in 1..(Len(s) - Len(sep) + 1) : SubSeq(s, i, i + Len(sep) - 1) = sep}
    IN  IF at = {} THEN 0 ELSE CHOOSE i \in at : \A j \in at : i <= j

\* strings.Split for a non-empty separator: s is cut at every occurrence of
\* sep, found from the left
RECURSIVE Split(_, _)
Split(s, sep) ==
    IF Index(s, sep) = 0 THEN <<s>>
    ELSE <<SubSeq(s, 1, Index(s, sep) - 1)>>
            \o Split(SubSeq(s, Index(s, sep) + Len(sep), Len(s)), sep)

\* the separator of the resource id
IDSeparator == <<"-", "-", "-">>

\* fmt.Sprintf("%s---%s", spn, sAMAccountName)
ServicePrincipalID(spn, sAMAccountName) == spn \o IDSeparator \o sAMAccountName

\* resourceServicePrincipalCreate: the SPN is added to the account and the id
\* is set
resourceServicePrincipalCreate(d, spn, sAMAccountName, reqs, f) ==
    With(GetObjectBySAMAccountName(d, sAMAccountName, <<>>, reqs, f),
         LAMBDA account :
            IF account.err # "nil"
            THEN [err |-> account.err, id |-> <<>>, dir |-> d, reqs |-> account.reqs]
            ELSE With(AddServicePrincipal(account.val, d, spn, account.reqs, f),
                      LAMBDA a :
                         IF a.err # "nil"
                         THEN [err |-> a.err, id |-> <<>>, dir |-> a.dir,
                               reqs |-> a.reqs]
                         ELSE [err |-> "nil",
                               id |-> ServicePrincipalID(spn, sAMAccountName),
                               dir |-> a.dir, reqs |-> a.reqs]))

\* resourceServicePrincipalRead: the id is split, the account is fetched and
\* asked for the SPN
resourceServicePrincipalRead(d, id, reqs, f) ==
    LET spnStrings == Split(id, IDSeparator)
    IN  IF Len(spnStrings) # 2
        THEN [err |-> "Resource ID is in the wrong format", spn |-> <<>>,
              samaccountname |-> <<>>, reqs |-> reqs]
        ELSE With(GetObjectBySAMAccountName(d, spnStrings[2],
                                            <<"servicePrincipalName">>, reqs, f),
              LAMBDA account :
                 IF account.err # "nil"
                 THEN [err |-> account.err, spn |-> spnStrings[1],
                       samaccountname |-> spnStrings[2], reqs |-> account.reqs]
                 ELSE With(HasServicePrincipal(account.val, d, spnStrings[1],
                                               account.reqs, f),
                           LAMBDA exists :
                              [err |-> IF exists.err # "nil" THEN exists.err
                                       ELSE IF exists.val THEN "nil"
                                       ELSE "SPN does not exist",
                               spn |-> spnStrings[1],
                               samaccountname |-> spnStrings[2],
                               reqs |-> exists.reqs]))

(***************************************************************************)
(* The adldap_computer resource.  Two handlers named resourceComputerUpdate*)
(* are in the source: the one written against LdapClient (it moves the     *)
(* account with LdapAccount.Move) and the one written against *ldap.Conn   *)
(* (it sends the ModifyDN itself); the second is resourceComputerUpdateConn*)
(* here.                                                                   *)
(***************************************************************************)
\* getParentObject: the components after the first, or the parse error
getParentObject(distinguishedName) ==
    LET dn == NewLdapDN(distinguishedName)
    IN  IF dn.err # "nil" THEN [err |-> dn.err, val |-> <<>>]
        ELSE IF Len(dn.RDNs) = 0
        THEN [err |-> "panic: slice bounds out of range", val |-> <<>>]
        ELSE [err |-> "nil", val |-> JoinRDNs(Tail(dn.RDNs))]

\* resourceComputerCreate: CreateComputerAccount(name, ou, nil)
resourceComputerCreate(d, name, ou, reqs, f) ==
    With(CreateComputerAccount(d, name, ou, NoAttrs, reqs, f),
         LAMBDA c : [err |-> c.err, dir |-> c.dir, reqs |-> c.reqs])

\* resourceComputerRead: organizational_unit is the parent of the DN of the
\* account whose sAMAccountName is the resource id
resourceComputerRead(d, id, reqs, f) ==
    With(GetObjectBySAMAccountName(d, id, <<>>, reqs, f),
         LAMBDA account :
            IF account.err # "nil"
            THEN [err |-> account.err, organizational_unit |-> <<>>,
                  reqs |-> account.reqs]
            ELSE LET parent == getParentObject(account.val.DN)
                 IN  [err |-> parent.err, organizational_unit |-> parent.val,
                      reqs |-> account.reqs])

\* resourceComputerUpdate (LdapClient): when organizational_unit changed, the
\* account is fetched by the resource id and moved
resourceComputerUpdate(d, id, hasChange, newOU, reqs, f) ==
    IF ~hasChange THEN [err |-> "nil", dir |-> d, reqs |-> reqs]
    ELSE With(GetObjectBySAMAccountName(d, id, <<>>, reqs, f),
              LAMBDA account :
                 IF account.err # "nil"
                 THEN [err |-> account.err, dir |-> d, reqs |-> account.reqs]
                 ELSE Move(account.val, d, newOU, account.reqs, f))

\* getComputerObject (*ldap.Conn): the one computer object with this
\* samAccountName
getComputerObject(d, samaccountname, attributes, reqs, f) ==
    GetEntry(d, samaccountname, "sAMAccountName", "computer", attributes, reqs, f)

\* resourceComputerUpdate (*ldap.Conn): the computer is fetched, a ModifyDN
\* is sent when its parent is not the new OU, and "not implemented" is
\* returned whatever happened
resourceComputerUpdateConn(d, id, newOU, reqs, f) ==
    With(getComputerObject(d, id, <<>>, reqs, f),
         LAMBDA entry_ :
            IF entry_.err # "nil"
            THEN [err |-> entry_.err, dir |-> d, reqs |-> entry_.reqs]
            ELSE LET dn == entry_.entry.DN
                     ou == JoinRDNs(Tail(dn))
                 IN  IF ou # newOU
                     THEN With(ConnModifyDN(d, dn, JoinRDNs(<<dn[1]>>), newOU,
                                            entry_.reqs, f),
                               LAMBDA m :
                                  IF m.err # "nil"
                                  THEN [err |-> m.err, dir |-> m.dir, reqs |-> m.reqs]
                                  ELSE [err |-> "not implemented", dir |-> m.dir,
                                        reqs |-> m.reqs])
                     ELSE [err |-> "not implemented", dir |-> d,
                           reqs |-> entry_.reqs])

(***************************************************************************)
(* LdapClient.New.  A client is its fields; the server's root DSE says     *)
(* whether the base-scope search of "" returns an entry, and the           *)
(* defaultNamingContext value that entry carries ("" when it carries none).*)
(***************************************************************************)
NewClient == [LdapURL |-> "", SearchBase |-> <<>>, ActIdempotently |-> FALSE,
              Conn |-> FALSE]

\* ldap.DialURL
Dial(reqs, f) ==
    LET ok == Len(reqs) + 1 # f
    IN  [err |-> IF ok THEN "nil" ELSE "transport",
         reqs |-> Append(reqs, [kind |-> "Dial", ok |-> ok])]

\* LdapClient.Bind
Bind(reqs, f) ==
    LET ok == Len(reqs) + 1 # f
    IN  [err |-> IF ok THEN "nil" ELSE "transport",
         reqs |-> Append(reqs, [kind |-> "Bind", ok |-> ok])]

\* LdapClient.DefaultNamingContext: result.Entries[0] is read without a look
\* at the number of entries
DefaultNamingContext(rootDSE, reqs, f) ==
    LET ok == Len(reqs) + 1 # f
        rs == Append(reqs, [kind |-> "Search", base |-> <<>>, scope |-> "base",
                            attributes |-> <<"defaultNamingContext">>, ok |-> ok])
    IN  IF ~ok THEN [err |-> "transport", val |-> <<>>, reqs |-> rs]
        ELSE IF ~rootDSE.found
        THEN [err |-> "panic: index out of range", val |-> <<>>, reqs |-> rs]
        ELSE [err |-> "nil", val |-> rootDSE.defaultNamingContext, reqs |-> rs]

\* LdapClient.New on receiver c; the searchBase argument is never stored: the
\* receiver's own SearchBase field decides whether the server is asked
New(c, rootDSE, url, searchBase, actIdempotently, reqs, f) ==
    IF url = ""
    THEN [err |-> "no url provided for LDAP client", client |-> c, reqs |-> reqs]
    ELSE
      LET c1 == [c EXCEPT !.LdapURL = url, !.ActIdempotently = actIdempotently]
      IN  With(Dial(reqs, f),
           LAMBDA dl :
             IF dl.err # "nil" THEN [err |-> dl.err, client |-> c1, reqs |-> dl.reqs]
             ELSE With(Bind(dl.reqs, f),
                   LAMBDA b :
                     LET c2 == [c1 EXCEPT !.Conn = TRUE]
                     IN  IF b.err # "nil"
                         THEN [err |-> b.err, client |-> c2, reqs |-> b.reqs]
                         ELSE IF c2.SearchBase = <<>>
                         THEN With(DefaultNamingContext(rootDSE, b.reqs, f),
                               LAMBDA n :
                                 LET c3 == [c2 EXCEPT !.SearchBase = n.val]
                                 IN  IF n.err = "panic: index out of range"
                                     THEN [err |-> n.err, client |-> c2, reqs |-> n.reqs]
                                     ELSE IF n.err # "nil" \/ c3.SearchBase = <<>>
                                     THEN [err |-> "searchBase is empty and Active Directory auto-detection failed",
                                           client |-> c3, reqs |-> n.reqs]
                                     ELSE [err |-> "nil", client |-> c3, reqs |-> n.reqs])
                         ELSE [err |-> "nil", client |-> c2, reqs |-> b.reqs]))

\* LdapClient.LdapSearch of client c: a subtree search under c.SearchBase
LdapSearchOf(c, d, filter, attributes, reqs, f) ==
    ConnSearch(d, c.SearchBase, filter, attributes, reqs, f)

(***************************************************************************)
(* The state machine.  Every action is one call of the client library,     *)
(* made by a resource handler on the client or on the handle it holds:     *)
(*   dir    the server's objects                                           *)
(*   entry  the handle (LdapEntry) the caller holds, and its static type   *)
(*   last   the last call: operation, argument, result, requests issued    *)
(*   prev   whether the call before it was the same call, and its outcome  *)
(*   pre    dir and entry as they were when the last call began            *)
(***************************************************************************)
va == <<"a">>
vb == <<"b">>
Vals == {va, vb}

\* the value lists a caller passes: up to MaxVals values, no value twice (the
\* handlers build them from schema sets and single strings)
ValueLists ==
    {s \in UNION {[1..n -> Vals] : n \in 0..MaxVals} :
        \A i, j \in 1..Len(s) : i # j => s[i] # s[j]}

InitDir(sam2) ==
    [x \in {SearchBase, Widgets, Gadgets, Child(alice, Widgets), Child(bob, Gadgets)} |->
        CASE x = SearchBase -> Object("domain", NoAttrs)
          [] x = Widgets -> Object("organizationalUnit", NoAttrs)
          [] x = Gadgets -> Object("organizationalUnit", NoAttrs)
          [] x = Child(alice, Widgets) ->
                Object("user", [a \in {"sAMAccountName", "userAccountControl",
                                       "servicePrincipalName"} |->
                    CASE a = "sAMAccountName" -> <<alice>>
                      [] a = "userAccountControl" -> <<FormatInt(NormalAccount)>>
                      [] a = "servicePrincipalName" -> <<vb, va>>])
          [] x = Child(bob, Gadgets) ->
                Object("user", [a \in {"sAMAccountName", "userAccountControl"} |->
                    CASE a = "sAMAccountName" -> <<sam2>>
                      [] a = "userAccountControl" -> <<FormatInt(NormalAccount)>>])]

NoCall == [op |-> "none", arg |-> <<>>, err |-> "nil", val |-> <<>>, reqs |-> <<>>]
NoPrev == [op |-> "none", err |-> "nil", same |-> FALSE, modifies |-> 0]

\* the handle the caller holds: the LdapEntry, the Go type wrapping it and the
\* call that returned it
Handle(h, wrapper, origin) == [h |-> h, wrapper |-> wrapper, origin |-> origin]

InitWith(dirs) ==
    /\ dir \in dirs
    /\ entry = Handle(NoHandle, "none", "none")
    /\ last = NoCall
    /\ prev = NoPrev
    /\ pre = [dir |-> dir, entry |-> entry]

\* a directory of two OUs and two users with their own sAMAccountNames
Init == InitWith({InitDir(bob)})

\* the same, or one whose two users share a sAMAccountName
InitLookup == InitWith({InitDir(bob), InitDir(alice)})

Modifies(reqs) == Len(SelectSeq(reqs, LAMBDA r : r.kind = "Modify"))

\* the operations whose outcome is remembered across the next call
Sequenced == {"UpdateAttributes", "Enable", "Disable"}

\* the bookkeeping of a call: op(arg) returned (val, err) after issuing reqs,
\* leaving the server as d and the caller's handle as e
Call(op, arg, err, val, reqs, d, e) ==
    /\ last' = [op |-> op, arg |-> arg, err |-> err, val |-> val, reqs |-> reqs]
    /\ prev' = IF last.op \in Sequenced
                THEN [op |-> last.op, err |-> last.err,
                      same |-> (last.op = op /\ last.arg = arg),
                      modifies |-> Modifies(last.reqs)]
                ELSE NoPrev
    /\ pre' = [dir |-> dir, entry |-> entry]
    /\ dir' = d
    /\ entry' = e

Bound == entry.h.bound
IsAccount == Bound /\ entry.wrapper = "LdapAccount"
IsOU == Bound /\ entry.wrapper = "LdapOU"

\* the same handle, with the LdapEntry an operation left behind
Same(h) == [entry EXCEPT !.h = h]

(***************************************************************************)
(* Actions.  F is the set of request positions at which the transport may  *)
(* fail during the call (0: no failure); the other parameters are the sets *)
(* the call's arguments are drawn from.                                    *)
(***************************************************************************)
LookupDNs == {Widgets, Missing, Child(alice, Widgets)}
Sams == {alice, bob, carol}

DoObjectExists ==
    \E dn \in LookupDNs, class \in {"*", "organizationalUnit"}, f \in 0..1 :
        \E r \in {ObjectExists(dir, dn, class, <<>>, f)} :
            Call("ObjectExists", <<dn, class>>, r.err, r.val, r.reqs, dir, entry)

DoContainerExists ==
    \E dn \in LookupDNs, f \in 0..1 :
        \E r \in {ContainerExists(dir, dn, <<>>, f)} :
            Call("ContainerExists", <<dn>>, r.err, r.val, r.reqs, dir, entry)

DoAccountExists ==
    \E sam \in Sams, f \in 0..1 :
        \E r \in {AccountExists(dir, sam, <<>>, f)} :
            Call("AccountExists", <<sam>>, r.err, r.val, r.reqs, dir, entry)

DoGetEntry ==
    \E searchField \in {"sAMAccountName", "distinguishedName"},
       class \in {"*", "organizationalUnit"}, f \in 0..1 :
        \E objectName \in IF searchField = "sAMAccountName" THEN Sams ELSE LookupDNs :
            \E r \in {GetEntry(dir, objectName, searchField, class, <<>>, <<>>, f)} :
                Call(IF searchField = "sAMAccountName" THEN "GetEntry by sAMAccountName"
                                                       ELSE "GetEntry by distinguishedName",
                     [name |-> objectName, field |-> searchField, class |-> class],
                     r.err, r.entry, r.reqs, dir, entry)

DoGetAccountBySAMAccountName(sams, lists, F) ==
    \E sam \in sams, attributes \in lists, f \in F :
        \E r \in {GetObjectBySAMAccountName(dir, sam, attributes, <<>>, f)} :
            Call("GetAccountBySAMAccountName", <<sam, attributes>>, r.err, r.val, r.reqs,
                 dir, Handle(r.val, "LdapAccount", "GetAccountBySAMAccountName"))

DoGetOU(dns, F) ==
    \E dn \in dns, f \in F :
        \E r \in {GetOU(dir, dn, <<>>, f)} :
            Call("GetOU", <<dn>>, r.err, r.val, r.reqs, dir,
                 Handle(r.val, "LdapOU", "GetOU"))

\* the attribute maps a caller passes: a list (never nil: every caller builds
\* its lists with []string{...} or make) for servicePrincipalName, description
\* or both
AttributeMaps ==
    {m \in UNION {[D -> {Slice(s) : s \in ValueLists}] :
                    D \in SUBSET {"servicePrincipalName", "description"}} :
        "description" \in DOMAIN m => m["description"].s \in {<<>>, <<va>>}}

DoUpdateAttributes(F) ==
    /\ Bound
    /\ \E attributeMap \in AttributeMaps, f \in F :
         \E r \in {UpdateAttributes(entry.h, dir, attributeMap, <<>>, f)} :
             Call("UpdateAttributes", attributeMap, r.err, <<>>, r.reqs, r.dir,
                  Same(r.entry))

DoCreateUserAccount(passwords, F) ==
    \E password \in passwords, f \in F :
        \E r \in {CreateUserAccount(dir, carol, password, Widgets, NoAttrs, <<>>, f)} :
            Call("CreateUserAccount",
                 [sam |-> carol, password |-> password, ou |-> Widgets,
                  attributes |-> NoAttrs],
                 r.err, r.val, r.reqs, r.dir,
                 Handle(r.val, "LdapAccount", "CreateUserAccount"))

DoEnable(F) ==
    /\ IsAccount
    /\ \E f \in F :
         \E r \in {Enable(entry.h, dir, <<>>, f)} :
             /\ Len(r.entry.requestedAttributes) <= MaxRequested
             /\ Call("Enable", Accountdisable, r.err, <<>>, r.reqs, r.dir, Same(r.entry))

DoDisable(F) ==
    /\ IsAccount
    /\ \E f \in F :
         \E r \in {Disable(entry.h, dir, <<>>, f)} :
             /\ Len(r.entry.requestedAttributes) <= MaxRequested
             /\ Call("Disable", Accountdisable, r.err, <<>>, r.reqs, r.dir, Same(r.entry))

DoAddUACFlag(F) ==
    /\ IsAccount
    /\ \E flags \in {DONT_EXPIRE_PASSWORD}, f \in F :
         \E r \in {AddUACFlag(entry.h, dir, flags, <<>>, f)} :
             /\ Len(r.entry.requestedAttributes) <= MaxRequested
             /\ Call("AddUACFlag", flags, r.err, <<>>, r.reqs, r.dir, Same(r.entry))

DoRemoveUACFlag(F) ==
    /\ IsAccount
    /\ \E flags \in {DONT_EXPIRE_PASSWORD}, f \in F :
         \E r \in {RemoveUACFlag(entry.h, dir, flags, <<>>, f)} :
             /\ Len(r.entry.requestedAttributes) <= MaxRequested
             /\ Call("RemoveUACFlag", flags, r.err, <<>>, r.reqs, r.dir, Same(r.entry))

DoIsEnabled(F) ==
    /\ IsAccount
    /\ \E f \in F :
         \E r \in {IsEnabled(entry.h, dir, <<>>, f)} :
             /\ Len(r.entry.requestedAttributes) <= MaxRequested
             /\ Call("IsEnabled", <<>>, r.err, r.val, r.reqs, dir, Same(r.entry))

MoveTargets == {Widgets, Gadgets, Missing}
RenameTargets == {<<Rdn("CN", alice)>>, <<Rdn("CN", carol)>>}
ChangeTargets == {Child(alice, Widgets), Child(bob, Gadgets), Child(carol, Gadgets),
                  Child(alice, Missing), Child(carol, Child(bob, Gadgets))}
OUTargets == {Missing, Gadgets}

DoMove(F) ==
    /\ Bound
    /\ \E destinationContainer \in MoveTargets, f \in F :
         \E r \in {Move(entry.h, dir, destinationContainer, <<>>, f)} :
             Call("Move", destinationContainer, r.err, <<>>, r.reqs, r.dir, entry)

DoRename(F) ==
    /\ Bound
    /\ \E newRDN \in RenameTargets, f \in F :
         \E r \in {Rename(entry.h, dir, newRDN, <<>>, f)} :
             Call("Rename", newRDN, r.err, <<>>, r.reqs, r.dir, entry)

DoChangeDN(F) ==
    /\ Bound
    /\ \E newDistinguishedName \in ChangeTargets, f \in F :
         \E r \in {ChangeDN(entry.h, dir, newDistinguishedName, <<>>, f)} :
             Call("ChangeDN", newDistinguishedName, r.err, <<>>, r.reqs, r.dir, entry)

DoOURename(F) ==
    /\ IsOU
    /\ \E distinguishedName \in OUTargets, f \in F :
         \E r \in {OURename(entry.h, dir, distinguishedName, <<>>, f)} :
             Call("LdapOU.Rename", distinguishedName, r.err, <<>>, r.reqs, r.dir, entry)

\* the DNs objects are created at: one that exists, a free one under an
\* existing OU, a free one under the search base, one whose parent is missing
CreateArgs ==
    {[dn |-> Widgets, attributes |-> NoAttrs, objectClass |-> "organizationalUnit"],
     [dn |-> Missing, attributes |-> NoAttrs, objectClass |-> "organizationalUnit"],
     [dn |-> <<Rdn("OU", <<"w">>)>> \o Missing, attributes |-> NoAttrs,
      objectClass |-> "organizationalUnit"],
     [dn |-> Child(carol, Widgets), attributes |-> [a \in {"description"} |-> <<va>>],
      objectClass |-> "user"],
     [dn |-> Child(carol, Missing), attributes |-> NoAttrs, objectClass |-> "user"]}

DoCreateObject(F) ==
    \E a \in CreateArgs, f \in F :
        \E r \in {CreateObject(dir, a.dn, a.attributes, a.objectClass, <<>>, f)} :
            Call("CreateObject", a, r.err, r.val, r.reqs, r.dir,
                 Handle(r.val, "LdapEntry", "CreateObject"))

\* the DNs OUs are created at
OUDNs ==
    {Missing,                                        \* free, under the search base
     Widgets,                                        \* exists
     <<Rdn("ou", <<"o">>)>> \o SearchBase,            \* the OU type in lower case
     <<Rdn("CN", <<"o">>)>> \o SearchBase,            \* not the OU type
     <<Rdn("OU", <<"o">>), Rdn("DC", <<"c">>)>>,      \* not below the search base
     SearchBase,
     <<Rdn("OU", <<"w">>)>> \o Missing,               \* parent missing
     <<Rdn("OU", <<"w">>), Rdn("OU", <<"w">>)>> \o Missing}  \* two parents missing

DoCreateOU(F) ==
    \E distinguishedName \in OUDNs, f \in F :
        \E r \in {CreateOU(dir, distinguishedName, <<>>, f)} :
            Call("CreateOU", distinguishedName, r.err, r.val, r.reqs, r.dir,
                 Handle(r.val, "LdapOU", "CreateOU"))

DoCreateOUAndParents(F) ==
    \E distinguishedName \in OUDNs, f \in F :
        \E r \in {CreateOUAndParents(dir, distinguishedName, <<>>, f)} :
            Call("CreateOUAndParents", distinguishedName, r.err, r.val, r.reqs, r.dir,
                 Handle(r.val, "LdapOU", "CreateOUAndParents"))

\* the passwords a caller sets: letters, a double quote, a backslash and a
\* non-ASCII letter
Passwords == {<<"p", "w">>, <<"p", "\"", "w">>, <<"\\">>, <<"U+00E9">>}

DoSetPassword(F) ==
    /\ IsAccount
    /\ \E password \in Passwords, f \in F :
         \E r \in {SetPassword(entry.h, dir, password, <<>>, f)} :
             Call("SetPassword", password, r.err, <<>>, r.reqs, r.dir, Same(r.entry))

vc == <<"c">>
\* a service principal name the account starts with, and one it lacks
SPNs == {va, vc}

DoAddServicePrincipal(F) ==
    /\ IsAccount
    /\ \E spn \in SPNs, f \in F :
         \E r \in {AddServicePrincipal(entry.h, dir, spn, <<>>, f)} :
             Call("AddServicePrincipal", spn, r.err, <<>>, r.reqs, r.dir, Same(r.entry))

DoRemoveServicePrincipal(F) ==
    /\ IsAccount
    /\ \E spn \in SPNs, f \in F :
         \E r \in {RemoveServicePrincipal(entry.h, dir, spn, <<>>, f)} :
             /\ Len(r.entry.requestedAttributes) <= MaxRequested
             /\ Call("RemoveServicePrincipal", spn, r.err, <<>>, r.reqs, r.dir,
                     Same(r.entry))

DoRemoveAttributeValue(F) ==
    /\ Bound
    /\ \E value \in {<<va>>, <<vc>>, <<vb, va>>}, f \in F :
         \E r \in {RemoveAttributeValue(entry.h, dir, "servicePrincipalName",
                                        Slice(value), <<>>, f)} :
             Call("RemoveAttributeValue", [name |-> "servicePrincipalName", value |-> value],
                  r.err, <<>>, r.reqs, r.dir, Same(r.entry))

DoIsEmpty(F) ==
    /\ IsOU
    /\ \E f \in F :
         \E r \in {IsEmpty(entry.h, dir, <<>>, f)} :
             Call("IsEmpty", <<>>, r.err, r.val, r.reqs, dir, entry)

DoOUDelete(F) ==
    /\ IsOU
    /\ \E f \in F :
         \E r \in {OUDelete(entry.h, dir, <<>>, f)} :
             Call("OUDelete", <<>>, r.err, <<>>, r.reqs, r.dir, entry)

\* the handler works on a handle of its own: the caller's is left as it is
DoResourceUserDelete(sams, F) ==
    \E sAMAccountName \in sams, f \in F :
        \E r \in {resourceUserDelete(dir, sAMAccountName, <<>>, f)} :
            Call("resourceUserDelete", sAMAccountName, r.err, <<>>, r.reqs, r.dir, entry)

\* the attribute names a caller reads
ReadNames == {"description", "servicePrincipalName"}

DoGetAttributeValues(F) ==
    /\ Bound
    /\ \E name \in ReadNames, f \in F :
         \E r \in {GetAttributeValues(entry.h, dir, name, <<>>, f)} :
             /\ Len(r.entry.requestedAttributes) <= MaxRequested
             /\ Call("GetAttributeValues", name, r.err, r.val, r.reqs, dir, Same(r.entry))

DoRefresh(F) ==
    /\ Bound
    /\ \E f \in F :
         \E r \in {Refresh(entry.h, dir, <<>>, f)} :
             Call("Refresh", <<>>, r.err, <<>>, r.reqs, dir, Same(r.entry))

\* the one-attribute updates a caller sends in between
DoUpdateAttribute(F) ==
    /\ Bound
    /\ \E name \in ReadNames, values \in {<<va>>}, f \in F :
         \E r \in {UpdateAttribute(entry.h, dir, name, Slice(values), <<>>, f)} :
             Call("UpdateAttribute", [name |-> name, values |-> values], r.err, <<>>,
                  r.reqs, r.dir, Same(r.entry))

(***************************************************************************)
(* DN texts the DN operations are applied to: the components, and how the  *)
(* text separates them.                                                    *)
(***************************************************************************)
\* a value as a DN text writes it: a backslash before a comma, a plus or a
\* backslash
RECURSIVE EscapeValue(_)
EscapeValue(v) ==
    IF v = <<>> THEN <<>>
    ELSE (IF Head(v) \in {",", "+", "\\"} THEN <<"\\", Head(v)>> ELSE <<Head(v)>>)
            \o EscapeValue(Tail(v))

RECURSIVE ComponentText(_)
ComponentText(rdn) ==
    TypeChars(rdn[1].Type) \o <<"=">> \o EscapeValue(rdn[1].Value)
        \o (IF Len(rdn) > 1 THEN <<"+">> \o ComponentText(Tail(rdn)) ELSE <<>>)

RECURSIVE DNText(_, _)
DNText(dn, sep) ==
    IF dn = <<>> THEN <<>>
    ELSE ComponentText(dn[1])
            \o (IF Len(dn) > 1 THEN sep \o DNText(Tail(dn), sep) ELSE <<>>)

\* the longest DN of the inputs, in components
MaxComponents == 3

\* first components: plain, with a space in the value, multi-valued, and with
\* a comma in the value
FirstComponents ==
    {Rdn("CN", <<"a">>), Rdn("OU", <<"F", " ", "U">>),
     <<Ava("CN", <<"a">>), Ava("OU", <<"b">>)>>, Rdn("CN", <<"a", ",", "b">>)}

\* the components after the first: plain, or with a comma in the value
UpperComponents == {Rdn("OU", <<"w">>), Rdn("DC", <<"c">>), Rdn("CN", <<"a", ",", "b">>)}

DNInputs ==
    {[dn |-> <<first>> \o upper, sep |-> sep] :
        first \in FirstComponents,
        upper \in UNION {[1..n -> UpperComponents] : n \in 0..(MaxComponents - 1)},
        sep \in {<<",">>, <<",", " ">>}}

TextOf(x) == DNText(x.dn, x.sep)

\* LdapDN.ParentDN of NewLdapDN(text)
DoParentDN ==
    \E x \in DNInputs :
        \E dn \in {NewLdapDNOf(TextOf(x))} :
            Call("ParentDN", x, dn.err,
                 IF dn.err # "nil" THEN <<>> ELSE JoinSegments(ParentDN(dn)),
                 <<>>, dir, entry)

\* LdapDN.RDN of NewLdapDN(text); RDNs[0] of a DN without components panics
DoRDN ==
    \E x \in DNInputs :
        \E dn \in {NewLdapDNOf(TextOf(x))} :
            Call("RDN", x,
                 IF dn.err # "nil" THEN dn.err
                 ELSE IF dn.RDNs = <<>> THEN "panic: index out of range" ELSE "nil",
                 IF dn.err # "nil" \/ dn.RDNs = <<>> THEN <<>> ELSE JoinSegments(RDN(dn)),
                 <<>>, dir, entry)

\* the text JoinRDNs makes of a parsed DN, parsed again as ChangeDN does with
\* the DN that Move and Rename hand it; and the DN put together again from
\* RDN() and ParentDN()
DoJoinRDNs ==
    \E x \in DNInputs :
        \E dn \in {NewLdapDNOf(TextOf(x))} :
            \E joined \in {JoinSegments(JoinRDNs(dn.RDNs))} :
                Call("JoinRDNs", x, dn.err,
                     [first |-> dn, joined |-> joined, second |-> NewLdapDNOf(joined),
                      rebuilt |-> IF Len(dn.RDNs) < 2 THEN dn
                                  ELSE NewLdapDNOf(JoinSegments(RDN(dn)) \o <<",">>
                                                     \o JoinSegments(ParentDN(dn)))],
                     <<>>, dir, entry)

\* ParentDN of the parent, as CreateOUAndParents takes it when it recurses
DoParentOfParent ==
    \E x \in DNInputs :
        \E dn \in {NewLdapDNOf(TextOf(x))} :
            \E parentOU \in {JoinSegments(ParentDN(dn))} :
                \E parent \in {NewLdapDNOf(parentOU)} :
                    Call("ParentDN of ParentDN", x, parent.err,
                         [parentOU |-> parentOU,
                          val |-> IF parent.err # "nil" THEN <<>>
                                  ELSE JoinSegments(ParentDN(parent))],
                         <<>>, dir, entry)

\* the accounts CreateAccount is asked for: a user name and a computer name
\* with its dollar, with and without a displayName, as a user (created
\* disabled) or as a computer (CreateComputerAccount)
AccountArgs ==
    {[sAMAccountName |-> sam, ou |-> ou, attributes |-> attributes, objectClass |-> k[1],
      userAccountControl |-> k[2]] :
        sam \in {carol, carol \o <<"$">>}, ou \in {Widgets},
        attributes \in {NoAttrs, [a \in {"displayName"} |-> <<bob>>]},
        k \in {<<"user", BitOr(NormalAccount, Accountdisable)>>,
               <<"computer", WorkstationTrustAccount>>}}

DoCreateAccount(F) ==
    \E x \in AccountArgs, f \in F :
        \E r \in {IF x.objectClass = "computer"
                  THEN CreateComputerAccount(dir, x.sAMAccountName, x.ou, x.attributes,
                                             <<>>, f)
                  ELSE CreateAccount(dir, x.sAMAccountName, x.ou, x.attributes,
                                     x.objectClass, x.userAccountControl, <<>>, f)} :
            Call("CreateAccount", x, r.err, r.val, r.reqs, r.dir,
                 Handle(r.val, "LdapAccount", "CreateAccount"))

\* the receivers New is called on: the new(LdapClient) of providerConfigure,
\* and a client whose SearchBase field was set by hand
Receivers == {NewClient, [NewClient EXCEPT !.SearchBase = Gadgets]}
RootDSEs ==
    {[found |-> FALSE, defaultNamingContext |-> <<>>],
     [found |-> TRUE, defaultNamingContext |-> <<>>],
     [found |-> TRUE, defaultNamingContext |-> SearchBase]}
URLs == {"", "ldaps"}

DoNew(F) ==
    \E c \in Receivers, rootDSE \in RootDSEs, url \in URLs,
       searchBase \in {<<>>, SearchBase, Widgets}, actIdempotently \in BOOLEAN, f \in F :
        \E r \in {New(c, rootDSE, url, searchBase, actIdempotently, <<>>, f)} :
            Call("New",
                 [receiver |-> c, rootDSE |-> rootDSE, url |-> url,
                  searchBase |-> searchBase, actIdempotently |-> actIdempotently],
                 r.err, r.client, r.reqs, dir, entry)

\* the first search of the client New has just returned
DoLdapSearch(F) ==
    /\ last.op = "New"
    /\ last.err = "nil"
    /\ \E dn \in {Widgets, Child(bob, Gadgets)}, f \in F :
         \E r \in {LdapSearchOf(last.val, dir,
                                [classes |-> {"*"}, field |-> "distinguishedName",
                                 value |-> dn], <<>>, <<>>, f)} :
             Call("LdapSearch", [new |-> last.arg, dn |-> dn], r.err, r.Entries, r.reqs,
                  dir, entry)

(***************************************************************************)
(* Specifications: the lookups; attribute updates on a fetched handle;     *)
(* account-control flags of a created or fetched account; moves and        *)
(* renames of a fetched account or OU.                                     *)
(***************************************************************************)
NextLookup ==
    \/ DoObjectExists
    \/ DoContainerExists
    \/ DoAccountExists
    \/ DoGetEntry
    \/ DoGetAccountBySAMAccountName({alice, carol}, {<<>>}, 0..1)
    \/ DoGetOU({Widgets, Missing}, {0})

SpecLookup == InitLookup /\ [][NextLookup]_vars

NextAttr ==
    \/ DoGetAccountBySAMAccountName({alice}, {<<>>, <<"description">>}, {0})
    \/ DoUpdateAttributes(0..1)

SpecAttr == Init /\ [][NextAttr]_vars

NextUAC ==
    \/ DoCreateUserAccount({<<>>, <<"p", "w">>}, {0})
    \/ DoGetAccountBySAMAccountName({carol}, {<<>>, <<"description">>}, {0})
    \/ DoEnable(0..2)
    \/ DoDisable(0..2)
    \/ DoAddUACFlag(0..2)
    \/ DoRemoveUACFlag(0..2)
    \/ DoIsEnabled(0..1)

SpecUAC == Init /\ [][NextUAC]_vars

NextDN ==
    \/ DoGetAccountBySAMAccountName({alice}, {<<>>}, {0})
    \/ DoGetOU({Widgets}, {0})
    \/ DoMove(0..3)
    \/ DoRename(0..3)
    \/ DoChangeDN(0..3)
    \/ DoOURename(0..3)

SpecDN == Init /\ [][NextDN]_vars

NextCreate ==
    \/ DoCreateObject(0..3)

SpecCreate == Init /\ [][NextCreate]_vars

NextCreateOU ==
    \/ DoCreateOU(0..4)
    \/ DoCreateOUAndParents(0..5)

SpecCreateOU == Init /\ [][NextCreateOU]_vars

NextNew ==
    \/ DoNew(0..3)
    \/ DoLdapSearch(0..1)

SpecNew == Init /\ [][NextNew]_vars

NextPassword ==
    \/ DoGetAccountBySAMAccountName({alice, bob}, {<<>>, <<"description">>}, 0..1)
    \/ DoSetPassword(0..1)

SpecPassword == Init /\ [][NextPassword]_vars

NextSPN ==
    \/ DoGetAccountBySAMAccountName({alice}, {<<>>, <<"description">>}, {0})
    \/ DoAddServicePrincipal(0..1)
    \/ DoRemoveServicePrincipal(0..2)
    \/ DoRemoveAttributeValue(0..1)

SpecSPN == Init /\ [][NextSPN]_vars

NextOU ==
    \/ DoGetOU({Widgets, Gadgets}, 0..1)
    \/ DoIsEmpty(0..1)
    \/ DoOUDelete(0..2)
    \/ DoResourceUserDelete({alice, bob}, 0..2)

SpecOU == Init /\ [][NextOU]_vars

NextCache ==
    \/ DoGetAccountBySAMAccountName({alice}, {<<>>, <<"description">>}, {0})
    \/ DoGetAttributeValues(0..1)
    \/ DoRefresh(0..1)
    \/ DoUpdateAttribute({0})
    \/ DoResourceUserDelete({alice}, {0})

SpecCache == Init /\ [][NextCache]_vars

NextDNText ==
    \/ DoParentDN
    \/ DoRDN
    \/ DoJoinRDNs
    \/ DoParentOfParent

SpecDNText == Init /\ [][NextDNText]_vars

NextAccount ==
    \/ DoCreateAccount(0..2)
    \/ DoCreateUserAccount({<<>>, <<"p", "w">>}, 0..4)

SpecAccount == Init /\ [][NextAccount]_vars

\* the names adldap_computer resources are given (the schema asks for the
\* trailing "$", nothing enforces it) and the OUs they are put in
ComputerNames == {carol \o <<"$">>, carol}
ComputerOUs == {Widgets, Gadgets}

DoResourceComputerCreate(F) ==
    \E name \in ComputerNames, ou \in ComputerOUs, f \in F :
        \E r \in {resourceComputerCreate(dir, name, ou, <<>>, f)} :
            Call("resourceComputerCreate", [id |-> name, ou |-> ou], r.err, <<>>,
                 r.reqs, r.dir, entry)

DoResourceComputerRead(F) ==
    \E id \in ComputerNames, f \in F :
        \E r \in {resourceComputerRead(dir, id, <<>>, f)} :
            Call("resourceComputerRead", [id |-> id], r.err, r.organizational_unit,
                 r.reqs, dir, entry)

DoResourceComputerUpdate(F) ==
    \E id \in ComputerNames, hasChange \in BOOLEAN, newOU \in MoveTargets, f \in F :
        \E r \in {resourceComputerUpdate(dir, id, hasChange, newOU, <<>>, f)} :
            Call("resourceComputerUpdate",
                 [id |-> id, hasChange |-> hasChange, newOU |-> newOU], r.err, <<>>,
                 r.reqs, r.dir, entry)

DoResourceComputerUpdateConn(F) ==
    \E id \in ComputerNames, newOU \in MoveTargets, f \in F :
        \E r \in {resourceComputerUpdateConn(dir, id, newOU, <<>>, f)} :
            Call("resourceComputerUpdateConn",
                 [id |-> id, hasChange |-> TRUE, newOU |-> newOU], r.err, <<>>,
                 r.reqs, r.dir, entry)

NextComputer ==
    \/ DoResourceComputerCreate(0..1)
    \/ DoResourceComputerRead(0..1)
    \/ DoResourceComputerUpdate(0..4)
    \/ DoResourceComputerUpdateConn(0..2)

SpecComputer == Init /\ [][NextComputer]_vars

\* the values another client leaves in userAccountControl
OtherUACs == {NormalAccount, NormalAccount + Accountdisable,
              NormalAccount + DONT_EXPIRE_PASSWORD}

DoUACFlagRaced(F) ==
    /\ IsAccount
    /\ \E add \in BOOLEAN, flags \in {Accountdisable, DONT_EXPIRE_PASSWORD},
          other \in OtherUACs, f \in F :
         \E r \in {UACFlagRaced(entry.h, dir, add, flags, other, <<>>, f)} :
             /\ Len(r.entry.requestedAttributes) <= MaxRequested
             /\ Call(IF add THEN "AddUACFlag raced" ELSE "RemoveUACFlag raced",
                     [flags |-> flags, other |-> other], r.err, r.read, r.reqs, r.dir,
                     Same(r.entry))

NextRace ==
    \/ DoGetAccountBySAMAccountName({alice}, {<<>>, <<"userAccountControl">>}, {0})
    \/ DoUACFlagRaced(0..2)

SpecRace == Init /\ [][NextRace]_vars

DoResourceUserCreate(F) ==
    \E password \in {<<>>, <<"p", "w">>}, enabled \in BOOLEAN,
       dontExpirePassword \in BOOLEAN, ou \in {Widgets}, f \in F :
        \E r \in {resourceUserCreate(dir, carol, password, ou, carol, enabled,
                                     dontExpirePassword, <<>>, f)} :
            Call("resourceUserCreate",
                 [sam |-> carol, password |-> password, ou |-> ou, enabled |-> enabled,
                  dontExpirePassword |-> dontExpirePassword],
                 r.err, <<>>, r.reqs, r.dir, entry)

NextUser ==
    \/ DoResourceUserCreate(0..6)
    \/ DoResourceUserDelete({carol}, {0})

SpecUser == Init /\ [][NextUser]_vars

\* the SPNs and account names a service principal resource is given: plain
\* ones, an SPN that ends in a hyphen and one that holds the separator
ResourceSPNs == {<<"c">>, <<"c", "-">>, <<"c", "-", "-", "-", "b">>}
ResourceAccounts == {alice, bob}

\* the ids read is given: those create writes, and one without a separator
ResourceIDs ==
    {ServicePrincipalID(spn, sam) : spn \in ResourceSPNs, sam \in ResourceAccounts}
        \cup {<<"c">>}

DoResourceServicePrincipalCreate(F) ==
    \E spn \in ResourceSPNs, sAMAccountName \in ResourceAccounts, f \in F :
        \E r \in {resourceServicePrincipalCreate(dir, spn, sAMAccountName, <<>>, f)} :
            Call("resourceServicePrincipalCreate",
                 [spn |-> spn, samaccountname |-> sAMAccountName], r.err, r.id,
                 r.reqs, r.dir, entry)

DoResourceServicePrincipalRead(F) ==
    \E id \in ResourceIDs, f \in F :
        \E r \in {resourceServicePrincipalRead(dir, id, <<>>, f)} :
            Call("resourceServicePrincipalRead", id, r.err,
                 [spn |-> r.spn, samaccountname |-> r.samaccountname], r.reqs, dir,
                 entry)

NextServicePrincipal ==
    \/ DoResourceServicePrincipalCreate(0..2)
    \/ DoResourceServicePrincipalRead(0..1)

SpecServicePrincipal == Init /\ [][NextServicePrincipal]_vars

\* strings that do not parse as a DN: a first component without a type
\* ("=o,DC=e,DC=c", "=o,OU=w,DC=e,DC=c"), a lone value ("o"), and a later
\* component without a type ("OU=o,=w,DC=e,DC=c")
UnparsableDNs ==
    {<<Rdn("", <<"o">>)>> \o SearchBase,
     <<Rdn("", <<"o">>)>> \o Widgets,
     <<Rdn("", <<"o">>)>>,
     <<Rdn("OU", <<"o">>), Rdn("", <<"w">>)>> \o SearchBase}

\* one of the DN operations, handed a string that does not parse
DoWithUnparsableDN(F) ==
    \E op \in {"CreateOU", "CreateOUAndParents", "Move", "Rename", "ChangeDN"},
       dn \in UnparsableDNs, f \in F :
        /\ op \in {"Move", "Rename", "ChangeDN"} => Bound
        /\ \E r \in {CASE op = "CreateOU" -> CreateOU(dir, dn, <<>>, f)
                       [] op = "CreateOUAndParents" -> CreateOUAndParents(dir, dn, <<>>, f)
                       [] op = "Move" -> Move(entry.h, dir, dn, <<>>, f)
                       [] op = "Rename" -> Rename(entry.h, dir, dn, <<>>, f)
                       [] op = "ChangeDN" -> ChangeDN(entry.h, dir, dn, <<>>, f)} :
              Call(op, dn, r.err, <<>>, r.reqs, r.dir, entry)

NextUnparsable ==
    \/ DoGetAccountBySAMAccountName({alice, bob}, {<<>>}, {0})
    \/ DoGetOU({Widgets, Gadgets}, {0})
    \/ DoWithUnparsableDN(0..2)

SpecUnparsable == Init /\ [][NextUnparsable]_vars

\* the longest list handed to sliceIsSubset
MaxSliceLen == 3

\* the lists sliceIsSubset is applied to: nil, and every list of up to
\* MaxSliceLen values, repeated values included
StringSlices ==
    {NilSlice} \cup {Slice(s) : s \in UNION {[1..n -> Vals] : n \in 0..MaxSliceLen}}

\* one call of sliceIsSubset(parent, subset)
DoSliceIsSubset ==
    \E parent \in StringSlices, subset \in StringSlices :
        Call("sliceIsSubset", [parent |-> parent, subset |-> subset], "nil",
             sliceIsSubset(parent, subset), <<>>, dir, entry)

NextSlices == DoSliceIsSubset

SpecSlices == Init /\ [][NextSlices]_vars

Next ==
    \/ NextLookup \/ NextAttr \/ NextUAC \/ NextDN
    \/ NextCreate \/ NextCreateOU \/ NextNew
    \/ NextPassword \/ NextSPN \/ NextOU
    \/ NextCache \/ NextDNText \/ NextAccount \/ NextComputer
    \/ NextRace \/ NextUser \/ NextServicePrincipal \/ NextUnparsable \/ NextSlices

Spec == Init /\ [][Next]_vars

(***************************************************************************)
(* Properties.  They are stated over the last call (last), the state it    *)
(* started from (pre) and the state it left (dir, entry).                  *)
(***************************************************************************)
\* the objects a search with this filter matches in directory d
Matches(d, filter) ==
    {x \in DOMAIN d : InSubtree(SearchBase, x) /\ FilterMatches(d, x, filter)}

AllOk(reqs) == \A i \in 1..Len(reqs) : reqs[i].ok

NoModifyDN(reqs) == \A i \in 1..Len(reqs) : reqs[i].kind # "ModifyDN"

Count(s, v) == Cardinality({i \in 1..Len(s) : s[i] = v})

\* the same values, whatever their order
SameValues(s, t) ==
    \A v \in {s[i] : i \in 1..Len(s)} \cup {t[i] : i \in 1..Len(t)} :
        Count(s, v) = Count(t, v)

\* the userAccountControl value the server holds for dn
ServerUAC(d, dn) ==
    LET x == CHOOSE y \in Resolve(d, dn) : TRUE
    IN  ParseInt(d[x].attrs["userAccountControl"][1]).val

IsContainer(d, dn) == \E x \in Resolve(d, dn) : d[x].objectClass \in ContainerClasses

\* the full DN a move or rename of handle e aims at
TargetDN(op, e, arg) ==
    CASE op = "Move"   -> <<e.DN[1]>> \o arg
      [] op = "Rename" -> arg \o Tail(e.DN)
      [] OTHER         -> arg

DNOps == {"Move", "Rename", "ChangeDN", "LdapOU.Rename"}
UACOps == {"Enable", "Disable", "AddUACFlag", "RemoveUACFlag"}
ExistsOps == {"ObjectExists", "ContainerExists", "AccountExists"}
EntryOps == {"GetEntry by sAMAccountName", "GetEntry by distinguishedName"}
ObjectOps == {"GetAccountBySAMAccountName", "GetOU"}

\* C1: when UpdateAttributes is called twice in a row with the same map on
\* the same handle, and the first call sent its one Modify and succeeded, the
\* second call sends no Modify.
C1_SecondUpdateSendsNothing ==
    (/\ last.op = "UpdateAttributes"
     /\ prev.same
     /\ prev.err = "nil"
     /\ prev.modifies = 1)
        => Modifies(last.reqs) = 0

\* C2: on a handle returned by CreateUserAccount, IsEnabled called right
\* after a successful Enable returns true, and right after a successful
\* Disable returns false.
C2_IsEnabledFollowsEnable ==
    (/\ last.op = "IsEnabled"
     /\ last.err = "nil"
     /\ entry.origin = "CreateUserAccount"
     /\ prev.err = "nil")
        => /\ prev.op = "Enable" => last.val = TRUE
           /\ prev.op = "Disable" => last.val = FALSE

\* C3: Enable, Disable, AddUACFlag(f) and RemoveUACFlag(f) leave every bit of
\* the server's userAccountControl other than the bits they name as it was on
\* the server when the call began.
C3_OtherBitsKept ==
    (/\ last.op \in UACOps
     /\ Exists(pre.dir, pre.entry.h.DN))
        => BitAndNot(ServerUAC(dir, pre.entry.h.DN), last.arg)
             = BitAndNot(ServerUAC(pre.dir, pre.entry.h.DN), last.arg)

\* C4: ChangeDN to the handle's own DN, with no transport failure, returns
\* success and issues no ModifyDN.
C4_ChangeToOwnDNIsNoOp ==
    (/\ last.op = "ChangeDN"
     /\ last.arg = pre.entry.h.DN
     /\ AllOk(last.reqs))
        => /\ last.err = "nil"
           /\ NoModifyDN(last.reqs)

\* C5: Move to a destination that is not an existing container returns an
\* error and issues no ModifyDN.
C5_MoveToNonContainerFails ==
    (/\ last.op = "Move"
     /\ ~IsContainer(pre.dir, last.arg))
        => /\ last.err # "nil"
           /\ NoModifyDN(last.reqs)

\* C6: in Move, Rename, ChangeDN and LdapOU.Rename every ModifyDN comes after
\* a successful search of the same call for the full target DN that found
\* nothing; and when the target DN exists (and the search for it went
\* through) the call returns the already-exists error and sends no ModifyDN.
C6_TargetCheckedBeforeModifyDN ==
    last.op \in DNOps =>
        LET t == TargetDN(last.op, pre.entry.h, last.arg)
        IN  /\ \A i \in 1..Len(last.reqs) :
                  last.reqs[i].kind = "ModifyDN" =>
                      /\ ~Exists(pre.dir, t)
                      /\ \E j \in 1..(i - 1) :
                            /\ last.reqs[j].kind = "Search"
                            /\ last.reqs[j].ok
                            /\ last.reqs[j].filter.field = "distinguishedName"
                            /\ last.reqs[j].filter.classes = {"*"}
                            /\ last.reqs[j].filter.value = t
            /\ (Exists(pre.dir, t) /\ last.reqs[1].ok) =>
                  /\ last.err = "rename failed: already exists"
                  /\ NoModifyDN(last.reqs)

\* C7: when Move(destination) returns no error for an existing object whose
\* parent is not destination, the directory then holds the object at its RDN
\* under destination and nothing at the old DN.
C7_MovedWhenMoveSucceeds ==
    (/\ last.op = "Move"
     /\ last.err = "nil"
     /\ Exists(pre.dir, pre.entry.h.DN)
     /\ Tail(pre.entry.h.DN) # last.arg)
        => /\ Exists(dir, <<pre.entry.h.DN[1]>> \o last.arg)
           /\ ~Exists(dir, pre.entry.h.DN)

\* the attributes of the map whose values differ, order aside, from the
\* handle's cached values
Differing(e, attributeMap) ==
    {a \in DOMAIN attributeMap : ~SameValues(attributeMap[a].s, EntryValues(e, a))}

C9_ExistsIffExactlyOne ==
    (last.op \in ExistsOps /\ last.reqs[1].ok) =>
        LET n == Cardinality(Matches(pre.dir, last.reqs[1].filter))
        IN  /\ (last.val /\ last.err = "nil") <=> n = 1
            /\ (~last.val /\ last.err = "nil") <=> n = 0
            /\ n >= 2 => (~last.val /\ last.err # "nil")

\* AccountExists met two accounts with the sAMAccountName it asked for
C9_Witness ==
    /\ last.op = "AccountExists"
    /\ last.reqs[1].ok
    /\ Cardinality(Matches(pre.dir, last.reqs[1].filter)) = 2
    /\ last.err = "too many results"

\* C10: GetEntry and GetObject return an entry, one the search matches, iff
\* the search goes through and matches exactly one object; no match gives the
\* not-found error, two or more the too-many-results error, a failed search
\* the transport error, and each of these errors is given in that case only.
C10_EntryIffExactlyOne ==
    last.op \in EntryOps \cup ObjectOps =>
        LET ok == last.reqs[1].ok
            M  == Matches(pre.dir, last.reqs[1].filter)
            n  == Cardinality(M)
        IN  /\ Len(last.reqs) = 1
            /\ last.err = "nil" <=> (ok /\ n = 1)
            /\ last.err = "nil" =>
                 /\ last.val.DN \in M
                 /\ last.val.Attributes = ReturnedAttrs(pre.dir[last.val.DN], <<>>)
            /\ last.err = "no entry returned" <=> (ok /\ n = 0)
            /\ last.err = "too many results" <=> (ok /\ n >= 2)
            /\ last.err = "transport" <=> ~ok
            /\ last.op \in ObjectOps => (last.val.bound <=> last.err = "nil")

\* a lookup by sAMAccountName met two accounts and returned the ambiguity
\* error
C10_Witness ==
    /\ last.op = "GetEntry by sAMAccountName"
    /\ last.reqs[1].ok
    /\ Cardinality(Matches(pre.dir, last.reqs[1].filter)) = 2
    /\ last.err = "too many results"

Adds(reqs) == Len(SelectSeq(reqs, LAMBDA r : r.kind = "Add"))

\* C11: when its existence check goes through, CreateObject sends no Add and
\* returns the already-exists error if an object is at dn; otherwise it sends
\* exactly one Add, and then: if the Add succeeds, it re-fetches the entry by
\* dn and returns the entry with the re-fetch's error; if the Add fails, it
\* returns the Add's error and sends nothing more.
C11_CreateChecksThenAdds ==
    (last.op = "CreateObject" /\ last.reqs[1].ok) =>
        /\ last.reqs[1].kind = "Search"
        /\ last.reqs[1].filter.value = last.arg.dn
        /\ IF Exists(pre.dir, last.arg.dn)
           THEN /\ last.err = "object already exists"
                /\ Len(last.reqs) = 1
                /\ dir = pre.dir
           ELSE /\ Adds(last.reqs) = 1
                /\ last.reqs[2].kind = "Add"
                /\ last.reqs[2].dn = last.arg.dn
                /\ IF Exists(dir, last.arg.dn)
                   THEN /\ Len(last.reqs) = 3
                        /\ last.reqs[3].kind = "Search"
                        /\ last.reqs[3].filter.field = "distinguishedName"
                        /\ last.reqs[3].filter.value = last.arg.dn
                        /\ last.err = (IF last.reqs[3].ok THEN "nil" ELSE "transport")
                        /\ last.err = "nil" =>
                              /\ last.val.bound
                              /\ last.val.DN = last.arg.dn
                   ELSE /\ Len(last.reqs) = 2
                        /\ last.err =
                              (IF last.reqs[2].ok THEN "no such object" ELSE "transport")
                        /\ ~last.val.bound

\* CreateObject added an object and returned the re-fetched entry
C11_Witness ==
    /\ last.op = "CreateObject"
    /\ ~Exists(pre.dir, last.arg.dn)
    /\ Exists(dir, last.arg.dn)
    /\ Len(last.reqs) = 3
    /\ last.err = "nil"
    /\ last.val.bound

\* dn lies strictly below base
Below(base, dn) ==
    /\ Len(dn) > Len(base)
    /\ NormDN(SubSeq(dn, Len(dn) - Len(base) + 1, Len(dn))) = NormDN(base)

\* the leaf component of dn has the OU attribute type
HasOUType(dn) == dn # <<>> /\ ToUpper(dn[1][1].Type) = "OU"

\* C12: CreateOU returns an error and sends no Add when the search base is
\* not an ancestor of dn or the leaf component of dn is not of the OU type;
\* in every other case it goes on to create an organizationalUnit at dn: it
\* looks for dn and, unless that search fails or finds it, sends the Add.
C12_CreateOURefusesOnlyBadDNs ==
    last.op = "CreateOU" =>
        IF ~Below(SearchBase, last.arg) \/ ~HasOUType(last.arg)
        THEN /\ last.err # "nil"
             /\ Adds(last.reqs) = 0
        ELSE /\ Len(last.reqs) >= 1
             /\ last.reqs[1].kind = "Search"
             /\ last.reqs[1].filter.value = last.arg
             /\ (last.reqs[1].ok /\ ~Exists(pre.dir, last.arg)) =>
                   /\ Len(last.reqs) >= 2
                   /\ last.reqs[2].kind = "Add"
                   /\ last.reqs[2].dn = last.arg
                   /\ last.reqs[2].objectClass = "organizationalUnit"

\* the ancestors of dn strictly below the search base, and dn itself
ChainOf(dn) ==
    {SubSeq(dn, i, Len(dn)) : i \in 1..(Len(dn) - Len(SearchBase))}

\* the positions in reqs of the Add requests for DN x
AddsOf(reqs, x) == {i \in 1..Len(reqs) : reqs[i].kind = "Add" /\ reqs[i].dn = x}

\* C13: when CreateOUAndParents(dn) returns no error for a dn below the
\* search base, it returns the OU at dn, dn and every ancestor of dn below
\* the search base exist as organizational units, every one of them that was
\* missing got an Add, and the Add of a parent came before that of its child.
C13_ParentsCreatedFirst ==
    (/\ last.op = "CreateOUAndParents"
     /\ last.err = "nil"
     /\ Below(SearchBase, last.arg))
        => /\ last.val.bound
           /\ last.val.DN = last.arg
           /\ \A x \in ChainOf(last.arg) :
                 /\ Exists(dir, x)
                 /\ dir[x].objectClass = "organizationalUnit"
                 /\ ~Exists(pre.dir, x) => AddsOf(last.reqs, x) # {}
                 /\ \A i \in AddsOf(last.reqs, x) :
                       \A j \in AddsOf(last.reqs, Tail(x)) : j < i

\* CreateOUAndParents created an OU and the two OUs missing above it
C13_Witness ==
    /\ last.op = "CreateOUAndParents"
    /\ last.err = "nil"
    /\ Len(last.arg) = Len(SearchBase) + 3
    /\ \A x \in ChainOf(last.arg) : ~Exists(pre.dir, x) /\ Exists(dir, x)
    /\ Adds(last.reqs) = 3

\* the searches of the server's root DSE among reqs
RootSearches(reqs) ==
    {i \in 1..Len(reqs) : reqs[i].kind = "Search" /\ reqs[i].base = <<>>}

\* C14: New called with a non-empty search base asks the server for no
\* default naming context and, when it succeeds, leaves the client with
\* exactly that search base, under which its searches then run; only New
\* called with an empty search base takes the server's defaultNamingContext.
C14_ConfiguredSearchBaseKept ==
    /\ (last.op = "New" /\ last.arg.searchBase # <<>>) =>
          /\ RootSearches(last.reqs) = {}
          /\ last.err = "nil" => last.val.SearchBase = last.arg.searchBase
    /\ (last.op = "New" /\ last.arg.searchBase = <<>> /\ last.err = "nil"
          /\ last.arg.receiver.SearchBase = <<>>) =>
          /\ RootSearches(last.reqs) # {}
          /\ last.val.SearchBase = last.arg.rootDSE.defaultNamingContext
    /\ (last.op = "LdapSearch" /\ last.arg.new.searchBase # <<>>) =>
          last.reqs[1].base = last.arg.new.searchBase

\* C15: when New runs with no search base and the root DSE search goes
\* through but returns no entry or no defaultNamingContext value, New returns
\* the auto-detection error.
C15_UndetectableBaseIsAnError ==
    (/\ last.op = "New"
     /\ last.arg.searchBase = <<>>
     /\ last.arg.receiver.SearchBase = <<>>
     /\ RootSearches(last.reqs) # {}
     /\ AllOk(last.reqs)
     /\ last.arg.rootDSE.defaultNamingContext = <<>>)
        => last.err = "searchBase is empty and Active Directory auto-detection failed"

\* the values attribute name has on the server in directory d for object dn
ServerValues(d, dn, name) ==
    IF ~Exists(d, dn) THEN <<>>
    ELSE LET x == CHOOSE y \in Resolve(d, dn) : TRUE
         IN  IF name \in DOMAIN d[x].attrs THEN d[x].attrs[name] ELSE <<>>

Among(v, vals) == \E i \in 1..Len(vals) : vals[i] = v

\* the changes of the Modify requests among reqs
ChangesOf(reqs) ==
    UNION {reqs[i].changes : i \in {j \in 1..Len(reqs) : reqs[j].kind = "Modify"}}

\* C16: for every password p, the value SetPassword writes to unicodePwd is
\* the UTF-16 little-endian encoding of a quote character, p unchanged, and a
\* quote character.
C16_PasswordQuotedVerbatim ==
    last.op = "SetPassword" =>
        \A c \in ChangesOf(last.reqs) :
            /\ c.attr = "unicodePwd"
            /\ c.vals = <<UTF16LE(<<"\"">> \o last.arg \o <<"\"">>)>>

\* C17: AddServicePrincipal(spn) on an account whose servicePrincipalName
\* values on the server include spn returns the already-exists error and
\* issues no request, whatever attributes the handle was fetched with.
C17_AddOfPresentSPNRefusedLocally ==
    (/\ last.op = "AddServicePrincipal"
     /\ Among(last.arg, ServerValues(pre.dir, pre.entry.h.DN, "servicePrincipalName")))
        => /\ last.err = "attribute with value already exists"
           /\ last.reqs = <<>>

\* C18: RemoveAttributeValue(name, values) issues no request and succeeds
\* when the values are not among the attribute's values on the server; when
\* they are, it issues one Modify deleting just those values.
C18_RemoveOfAbsentValuesIsNoOp ==
    last.op = "RemoveAttributeValue" =>
        LET had == ServerValues(pre.dir, pre.entry.h.DN, last.arg.name)
        IN  IF \A i \in 1..Len(last.arg.value) : Among(last.arg.value[i], had)
            THEN /\ Modifies(last.reqs) = 1
                 /\ ChangesOf(last.reqs) =
                       {[op |-> "Delete", attr |-> last.arg.name, vals |-> last.arg.value]}
            ELSE /\ last.reqs = <<>>
                 /\ last.err = "nil"

\* C19: RemoveServicePrincipal(spn) issues no Modify and succeeds when spn is
\* not among the account's servicePrincipalName values on the server; when it
\* is, it issues one Modify deleting spn alone, and the account keeps every
\* other value.
C19_RemoveSPNOnlyWhenPresent ==
    (last.op = "RemoveServicePrincipal" /\ AllOk(last.reqs)) =>
        LET had == ServerValues(pre.dir, pre.entry.h.DN, "servicePrincipalName")
            has == ServerValues(dir, pre.entry.h.DN, "servicePrincipalName")
        IN  IF Among(last.arg, had)
            THEN /\ Modifies(last.reqs) = 1
                 /\ ChangesOf(last.reqs) =
                       {[op |-> "Delete", attr |-> "servicePrincipalName",
                         vals |-> <<last.arg>>]}
                 /\ last.err = "nil"
                 /\ has = SelectSeq(had, LAMBDA v : v # last.arg)
            ELSE /\ Modifies(last.reqs) = 0
                 /\ last.err = "nil"

\* the objects of directory d at or below dn
SubtreeOf(d, dn) == {x \in DOMAIN d : InSubtree(dn, x)}

Dels(reqs) == {i \in 1..Len(reqs) : reqs[i].kind = "Del"}

\* C20: LdapOU.Delete issues a delete request only when the OU's subtree on
\* the server is the OU alone, which is exactly when IsEmpty returns true; for
\* an OU with a descendant Delete returns the not-empty error without a
\* delete request, and for an OU left without children Delete removes it.
C20_DeleteOnlyEmptyOU ==
    LET ou  == pre.entry.h.DN
        sub == SubtreeOf(pre.dir, ou)
    IN  /\ (last.op = "IsEmpty" /\ last.err = "nil") => (last.val <=> sub = {ou})
        /\ last.op = "OUDelete" =>
              /\ Dels(last.reqs) # {} => sub = {ou}
              /\ (Cardinality(sub) > 1 /\ AllOk(last.reqs)) =>
                    /\ last.err = "organizational unit is not empty"
                    /\ Dels(last.reqs) = {}
                    /\ dir = pre.dir
              /\ (sub = {ou} /\ AllOk(last.reqs)) =>
                    /\ last.err = "nil"
                    /\ Cardinality(Dels(last.reqs)) = 1
                    /\ ~Exists(dir, ou)

\* Widgets, which began with the user alice in it, has been deleted after the
\* user was
C20_Witness ==
    /\ last.op = "OUDelete"
    /\ last.err = "nil"
    /\ pre.entry.h.DN = Widgets
    /\ ~Exists(pre.dir, Child(alice, Widgets))
    /\ ~Exists(dir, Widgets)

Searches(reqs) == {i \in 1..Len(reqs) : reqs[i].kind = "Search"}

\* C21: GetAttributeValues(name) searches the directory only when name is not
\* yet among the handle's requested attributes; a call for a name already
\* requested answers from the cache, and name is in the list at most once.
C21_RequestedNameReadFromCache ==
    last.op = "GetAttributeValues" =>
        /\ Among(last.arg, pre.entry.h.requestedAttributes) => Searches(last.reqs) = {}
        /\ Count(entry.h.requestedAttributes, last.arg) <= 1
        /\ Cardinality(Searches(last.reqs)) <= 1

C23_RefreshAllOrNothing ==
    last.op = "Refresh" =>
        IF last.err # "nil"
        THEN entry.h = pre.entry.h
        ELSE /\ entry.h.DN \in Resolve(dir, pre.entry.h.DN)
             /\ entry.h.Attributes =
                   ReturnedAttrs(dir[entry.h.DN], pre.entry.h.requestedAttributes)

\* a Refresh of a handle whose object is gone has failed and the cache is
\* still there
C23_Witness ==
    /\ last.op = "Refresh"
    /\ last.err = "no entry returned"
    /\ entry.h.Attributes # NoAttrs
    /\ entry.h = pre.entry.h

\* "type=value" of single-valued components, comma-joined, no spaces added
RECURSIVE Serialization(_)
Serialization(dn) ==
    IF dn = <<>> THEN <<>>
    ELSE TypeChars(dn[1][1].Type) \o <<"=">> \o dn[1][1].Value
            \o (IF Len(dn) > 1 THEN <<",">> \o Serialization(Tail(dn)) ELSE <<>>)

\* C24: for a DN text d, written with or without spaces after its commas,
\* ParentDN returns the type=value serialization of the components of d after
\* the first, comma-joined in order without spaces, and the empty string when
\* d has one component.
C24_ParentDNDropsFirst ==
    last.op = "ParentDN" =>
        /\ last.err = "nil"
        /\ last.val = IF Len(last.arg.dn) = 1 THEN <<>>
                      ELSE Serialization(Tail(last.arg.dn))

\* the parent of a DN of three components written with ", " has been taken
C24_Witness ==
    /\ last.op = "ParentDN"
    /\ last.arg.sep = <<",", " ">>
    /\ Len(last.arg.dn) = 3
    /\ last.arg.dn[3] # last.arg.dn[2]
    /\ last.val = Serialization(Tail(last.arg.dn))

\* C25: for a non-empty DN text d, RDN returns the first component of d
\* alone, which for a d of one component is d itself.
C25_RDNIsFirstComponent ==
    last.op = "RDN" =>
        /\ last.err = "nil"
        /\ last.val = ComponentText(last.arg.dn[1])

\* C26: a DN text d parsed, serialized by JoinRDNs and parsed again is a DN
\* equal to parse(d); and RDN(d), a comma and ParentDN(d) parse to a DN equal
\* to parse(d) when d has two or more components.
C26_JoinRDNsRoundTrip ==
    (last.op = "JoinRDNs" /\ last.val.first.err = "nil") =>
        /\ last.val.second.err = "nil"
        /\ Equal(last.val.second, last.val.first)
        /\ last.val.rebuilt.err = "nil"
        /\ Equal(last.val.rebuilt, last.val.first)

\* C27: ParentDN applied to the empty parent of a DN of one component ends
\* with an error of its own: it neither returns an empty DN as if nothing had
\* happened nor ends the process.
C27_ParentOfEmptyDNIsAnError ==
    (last.op = "ParentDN of ParentDN" /\ last.val.parentOU = <<>>) =>
        /\ last.err # "nil"
        /\ last.err \notin {"panic: index out of range", "fatal"}

AddRequests(reqs) == {i \in 1..Len(reqs) : reqs[i].kind = "Add"}

\* s without the dollar it ends in, for the names of the model (at most one)
WithoutDollar(s) ==
    IF s # <<>> /\ s[Len(s)] = "$" THEN SubSeq(s, 1, Len(s) - 1) ELSE s

\* C28: CreateAccount adds the object at CN=<name>,<container>, name being
\* the first displayName value when the map has one and else the
\* sAMAccountName without its trailing dollar; the Add carries the
\* sAMAccountName as given and the userAccountControl the caller passed.
C28_CreateAccountNamesTheObject ==
    last.op = "CreateAccount" =>
        LET x    == last.arg
            name == IF "displayName" \in DOMAIN x.attributes
                    THEN x.attributes["displayName"][1]
                    ELSE WithoutDollar(x.sAMAccountName)
        IN  /\ \A i \in AddRequests(last.reqs) :
                  /\ last.reqs[i].dn = <<Rdn("CN", name)>> \o x.ou
                  /\ last.reqs[i].attrs["sAMAccountName"] = <<x.sAMAccountName>>
                  /\ ParseInt(last.reqs[i].attrs["userAccountControl"][1]).val
                        = x.userAccountControl
                  /\ last.reqs[i].objectClass = x.objectClass
            /\ last.err = "nil" =>
                  /\ Adds(last.reqs) = 1
                  /\ Exists(dir, <<Rdn("CN", name)>> \o x.ou)

\* the computer account carol$ has been created as CN=carol
C28_Witness ==
    /\ last.op = "CreateAccount"
    /\ last.err = "nil"
    /\ last.arg.sAMAccountName = carol \o <<"$">>
    /\ "displayName" \notin DOMAIN last.arg.attributes
    /\ Exists(dir, <<Rdn("CN", carol)>> \o last.arg.ou)
    /\ ~Exists(pre.dir, <<Rdn("CN", carol)>> \o last.arg.ou)

\* C29: CreateUserAccount adds the user with userAccountControl
\* NormalAccount|Accountdisable; it sends the password Modify only after its
\* Add went through and only for a non-empty password, and the Modify
\* touches unicodePwd alone, so the account it leaves is disabled.
C29_UserCreatedDisabled ==
    last.op = "CreateUserAccount" =>
        LET dn == <<Rdn("CN", last.arg.sam)>> \o last.arg.ou
        IN  /\ \A i \in AddRequests(last.reqs) :
                  ParseInt(last.reqs[i].attrs["userAccountControl"][1]).val =
                      NormalAccount + Accountdisable
            /\ \A i \in 1..Len(last.reqs) : last.reqs[i].kind = "Modify" =>
                  /\ last.arg.password # <<>>
                  /\ \E j \in AddRequests(last.reqs) : j < i /\ last.reqs[j].ok
                  /\ ~Exists(pre.dir, dn) /\ Exists(dir, dn)
                  /\ \A c \in last.reqs[i].changes : c.attr = "unicodePwd"
            /\ (AddRequests(last.reqs) # {} /\ Exists(dir, dn) /\ ~Exists(pre.dir, dn)) =>
                  IsSet(ServerUAC(dir, dn), Accountdisable)

\* a user has been created with a password: one Add, then one Modify
C29_Witness ==
    /\ last.op = "CreateUserAccount"
    /\ last.err = "nil"
    /\ last.arg.password # <<>>
    /\ Modifies(last.reqs) = 1
    /\ Adds(last.reqs) = 1

\* the objects of d whose sAMAccountName is id
Named(d, id) ==
    {x \in DOMAIN d : /\ "sAMAccountName" \in DOMAIN d[x].attrs
                      /\ d[x].attrs["sAMAccountName"] = <<id>>}

\* call c, started in directory d, is an update of organizational_unit to an
\* OU that exists, of a resource whose one computer object exists, and every
\* request of the call went through
UpdatesOU(c, d) ==
    /\ c.op \in {"resourceComputerUpdate", "resourceComputerUpdateConn"}
    /\ c.arg.hasChange
    /\ IsContainer(d, c.arg.newOU)
    /\ Cardinality(Named(d, c.arg.id)) = 1
    /\ \A x \in Named(d, c.arg.id) : d[x].objectClass = "computer"
    /\ AllOk(c.reqs)

\* C30: an update of an adldap_computer's organizational_unit to an existing
\* OU returns without error, and the read of the same resource that follows
\* it reports the new OU as organizational_unit.
C30_UpdateMovesTheComputer ==
    [][/\ UpdatesOU(last', dir) => last'.err = "nil"
       /\ (/\ UpdatesOU(last, pre.dir)
           /\ last'.op = "resourceComputerRead"
           /\ last'.arg.id = last.arg.id
           /\ last'.err = "nil") => last'.val = last.arg.newOU]_vars

\* the operations C31 is about
CoreOps == {"Move", "Rename", "ChangeDN", "CreateOU", "CreateOUAndParents",
            "CreateUserAccount"}

\* a step of call c, started from directory d with handle e, failed: one of
\* its requests did not go through, or it is a Move or Rename whose ChangeDN
\* returns an error
StepFailed(c, d, e) ==
    \/ ~AllOk(c.reqs)
    \/ /\ c.op \in {"Move", "Rename"}
       /\ ChangeDN(e, d, TargetDN(c.op, e, c.arg), <<>>, 0).err # "nil"

\* C31: when a step of Move, Rename, ChangeDN, CreateOU, CreateOUAndParents
\* or CreateUserAccount fails, the operation returns an error.
C31_NoFailureSwallowed ==
    (last.op \in CoreOps /\ StepFailed(last, pre.dir, pre.entry.h))
        => last.err # "nil"

\* C32: every call of CreateOUAndParents ends by returning to its caller: the
\* chain of recursive calls stops at an ancestor that exists, or at the
\* latest when the components of the DN are used up, and never goes on until
\* the stack is exhausted.
C32_CreateOUAndParentsTerminates ==
    last.op = "CreateOUAndParents" => last.err # "fatal: stack overflow"

\* a ModifyDN of the call went through
Moved(reqs) == \E i \in 1..Len(reqs) : reqs[i].kind = "ModifyDN" /\ reqs[i].ok

\* C33: after a Move, Rename or ChangeDN that returned no error and whose
\* ModifyDN went through, the DN of the handle is the new DN of the object,
\* which is where the object now is on the server.
C33_HandleFollowsTheObject ==
    (/\ last.op \in {"Move", "Rename", "ChangeDN"}
     /\ last.err = "nil"
     /\ Moved(last.reqs))
        => /\ entry.h.DN = TargetDN(last.op, pre.entry.h, last.arg)
           /\ Exists(dir, entry.h.DN)

\* r is a search for a container
ContainerSearch(r) == r.kind = "Search" /\ r.filter.classes = ContainerClasses

Computed(c) ==
    IF c.op = "AddUACFlag raced" THEN BitOr(c.val, c.arg.flags)
    ELSE BitAndNot(c.val, c.arg.flags)

\* C35: when another client writes userAccountControl between the read and
\* the write of AddUACFlag or RemoveUACFlag, the call does not look at the
\* server again and does not retry: it sends at most one Modify, sends it
\* whenever the bitmask it computed differs from the value it read, and once
\* that Modify went through the server holds the computed bitmask, whatever
\* the other client wrote.
C35_LastWriterWins ==
    (last.op \in {"AddUACFlag raced", "RemoveUACFlag raced"} /\ last.val # -1) =>
        /\ Modifies(last.reqs) <= 1
        /\ \A i \in 1..Len(last.reqs) :
              last.reqs[i].kind = "Search" =>
                  i = 1 /\ "userAccountControl" \notin DOMAIN pre.entry.h.Attributes
        /\ (Computed(last) # last.val /\ AllOk(last.reqs)) =>
              /\ last.err = "nil"
              /\ Modifies(last.reqs) = 1
        /\ (\E i \in 1..Len(last.reqs) : last.reqs[i].kind = "Modify" /\ last.reqs[i].ok)
              => ServerUAC(dir, pre.entry.h.DN) = Computed(last)

\* the other client set a bit the handle had not read, and the handle's
\* Modify removed it again
C35_Witness ==
    /\ last.op = "AddUACFlag raced"
    /\ last.err = "nil"
    /\ last.val = NormalAccount
    /\ last.arg.flags = DONT_EXPIRE_PASSWORD
    /\ last.arg.other = NormalAccount + Accountdisable
    /\ Modifies(last.reqs) = 1
    /\ ServerUAC(dir, pre.entry.h.DN) = NormalAccount + DONT_EXPIRE_PASSWORD

\* C35 as stated: whenever the raced call returns without error, the server
\* holds the bitmask the call computed from what it read.
C35_OtherChangeOverwritten ==
    (/\ last.op \in {"AddUACFlag raced", "RemoveUACFlag raced"}
     /\ last.val # -1
     /\ last.err = "nil"
     /\ AllOk(last.reqs))
        => ServerUAC(dir, pre.entry.h.DN) = Computed(last)

\* the Add of the call went through and its Modify, the password change, did
\* not
PasswordStepFailed(reqs) ==
    /\ \E i \in AddRequests(reqs) : reqs[i].ok
    /\ \E i \in 1..Len(reqs) : reqs[i].kind = "Modify" /\ ~reqs[i].ok

\* C36: when the Add of CreateUserAccount created the account and the
\* following SetPassword fails, CreateUserAccount returns an error and no
\* account, the failed Modify is the last request it sends (no Delete, no
\* second attempt), and the account stays in the directory, disabled.
C36_NoCompensationAfterPasswordFailure ==
    (/\ last.op = "CreateUserAccount"
     /\ PasswordStepFailed(last.reqs))
        => LET dn == <<Rdn("CN", last.arg.sam)>> \o last.arg.ou
           IN  /\ last.err = "error setting password"
               /\ ~last.val.bound
               /\ last.reqs[Len(last.reqs)].kind = "Modify"
               /\ Modifies(last.reqs) = 1
               /\ Dels(last.reqs) = {}
               /\ ~Exists(pre.dir, dn)
               /\ Exists(dir, dn)
               /\ IsSet(ServerUAC(dir, dn), Accountdisable)

\* the account was added and its password could not be set
C36_Witness ==
    /\ last.op = "CreateUserAccount"
    /\ PasswordStepFailed(last.reqs)
    /\ last.err = "error setting password"
    /\ Exists(dir, <<Rdn("CN", last.arg.sam)>> \o last.arg.ou)

\* C37: after resourceUserCreate with enabled and dont_expire_password both
\* set has returned without error, the server's userAccountControl of the new
\* account has the account-disable bit clear and DONT_EXPIRE_PASSWORD set.
C37_CreatedEnabledAndNotExpiring ==
    (/\ last.op = "resourceUserCreate"
     /\ last.err = "nil"
     /\ last.arg.enabled
     /\ last.arg.dontExpirePassword)
        => LET dn == <<Rdn("CN", last.arg.sam)>> \o last.arg.ou
           IN  /\ Exists(dir, dn)
               /\ ~IsSet(ServerUAC(dir, dn), Accountdisable)
               /\ IsSet(ServerUAC(dir, dn), DONT_EXPIRE_PASSWORD)

\* C38: the id create writes for (spn, account) is spn---account; read of
\* that id takes it apart into the same spn and account; and read of an id
\* that does not split on "---" into exactly two parts fails without a
\* request to the directory.
C38_IDRoundTrip ==
    /\ (last.op = "resourceServicePrincipalCreate" /\ last.err = "nil") =>
          last.val = last.arg.spn \o <<"-", "-", "-">> \o last.arg.samaccountname
    /\ last.op = "resourceServicePrincipalRead" =>
          /\ \A spn \in ResourceSPNs, sam \in ResourceAccounts :
                last.arg = spn \o <<"-", "-", "-">> \o sam =>
                    /\ last.err # "Resource ID is in the wrong format"
                    /\ last.val = [spn |-> spn, samaccountname |-> sam]
          /\ Len(Split(last.arg, IDSeparator)) # 2 =>
                /\ last.err = "Resource ID is in the wrong format"
                /\ last.reqs = <<>>

\* the outcomes that end the process instead of returning
Crashes == {"panic: nil pointer dereference", "panic: index out of range",
            "panic: slice bounds out of range", "fatal: stack overflow"}

\* C39: CreateOU, CreateOUAndParents, Move, Rename and ChangeDN, given a
\* string that does not parse as a DN, return an error; they send no Add and
\* no ModifyDN, and they do not crash.
C39_UnparsableDNIsAnError ==
    (/\ last.op \in {"CreateOU", "CreateOUAndParents", "Move", "Rename", "ChangeDN"}
     /\ NewLdapDN(last.arg).err # "nil")
        => /\ last.err # "nil"
           /\ last.err \notin Crashes
           /\ Adds(last.reqs) = 0
           /\ NoModifyDN(last.reqs)

\* C40: sliceIsSubset(parent, subset) returns true exactly when every element
\* of subset occurs in parent, whatever the lengths of the two lists and
\* whether or not they repeat elements.
Occurs(parent, subset) ==
    \A i \in 1..Len(subset.s) : \E j \in 1..Len(parent.s) : parent.s[j] = subset.s[i]

C40_TrueIffEveryElementOccurs ==
    last.op = "sliceIsSubset" =>
        (last.val <=> Occurs(last.arg.parent, last.arg.subset))

====
